---------------------------- MODULE Spec2Model ----------------------------
(***************************************************************************)
(* Model of the file-based bridge of tradingbot (class MT_Client of        *)
(* src/tradingbot/mt_client.py): the outbound command channel              *)
(* (send_command and its calls, start, send_reset_command_ids_command),   *)
(* the external receiver that consumes slot files, and the environment     *)
(* the channel runs in.                                                    *)
(*                                                                         *)
(* Granularity.  Every access to shared state (command_id, the lock, a     *)
(* slot file, the clock, START) is a step of its own; computations on      *)
(* locals are folded into the step that precedes them.  CPython switches   *)
(* threads between bytecodes, so the read and the write of                 *)
(*     self.command_id = (self.command_id + 1) % 100000                    *)
(* are two steps, and exists(file_path) and open(file_path, 'w') are two   *)
(* steps.  open/write/close of one slot file is one step.                  *)
(*                                                                         *)
(* Time.  clock counts sleep_delay units since the sender that holds the   *)
(* lock computed its end_time; max_retry_command_seconds is                *)
(* max_retry_command_seconds units after that.  Every clock value at or    *)
(* past the deadline behaves alike, so the clock stops there.              *)
(***************************************************************************)
EXTENDS Integers, Sequences, FiniteSets, TLC

(***************************************************************************)
(* Bounds of the model.                                                    *)
(***************************************************************************)
NumSenders == 2                 \* threads that call the bridge
num_command_files == 2          \* slot files (50 in the source)
max_retry_command_seconds == 1  \* the retry deadline, in sleep_delay units
MaxCalls == 3                   \* calls of the bridge in one behaviour

(***************************************************************************)
(* Program constants.                                                      *)
(***************************************************************************)
CommandIdModulus == 100000

Senders == 1..NumSenders
\* the thread of the run-once script (forex.main), the one that starts the
\* bridge; the other threads are those of the event handlers
Orchestrator == 1
Slots == 0..(num_command_files - 1)
NoThread == 0
NoFile == "<absent>"
\* no sequence number: sequence numbers lie in 0..CommandIdModulus - 1
NoId == -CommandIdModulus
StaleFile == "<:7|CLOSE_ORDER|12,0:>"   \* a command file left by an earlier run

Min(a, b) == IF a < b THEN a ELSE b

(***************************************************************************)
(* Outbound commands.                                                      *)
(***************************************************************************)
RECURSIVE Join(_, _)
\* sep.join(fields), fields a sequence of strings
Join(fields, sep) ==
  IF Len(fields) = 0 THEN ""
  ELSE IF Len(fields) = 1 THEN fields[1]
  ELSE fields[1] \o sep \o Join(Tail(fields), sep)

\* the orders a caller may ask to open; lots is held as its str() form
Orders ==
  { [symbol |-> "EURUSD", order_type |-> "buy", lots |-> "0.01", price |-> 0,
     stop_loss |-> 0, take_profit |-> 0, magic |-> 0, comment |-> "test",
     expiration |-> 0] }

\* send_open_order_command: the payload of OPEN_ORDER
OpenOrderPayload(order) ==
  Join(<<order.symbol, order.order_type, order.lots, ToString(order.price),
         ToString(order.stop_loss), ToString(order.take_profit),
         ToString(order.magic), order.comment, ToString(order.expiration)>>,
       ",")

\* the (verb, payload) pairs the public command methods hand to send_command
Commands ==
  { [verb |-> "OPEN_ORDER", content |-> OpenOrderPayload(o)] : o \in Orders }

ResetCommand == [verb |-> "RESET_COMMAND_IDS", content |-> ""]

NoCommand == [verb |-> "", content |-> ""]

\* the text send_command writes into a slot file
CommandText(id, command, content) ==
  "<:" \o ToString(id) \o "|" \o command \o "|" \o content \o ":>"

VARIABLES
  command_id,   \* self.command_id
  lock,         \* self.lock: NoThread when free, else the thread that took it
  slots,        \* slot i |-> text of Commands_<i>.txt, NoFile when absent
  env,          \* the shared directory: "ok", "no_mt_path", "unwritable"
  START,        \* self.START
  workers,      \* sets of poller threads spawned so far by start()
  clock,        \* time since the lock holder computed end_time
  pc,           \* per thread: where it is in its call
  kind,         \* per thread: "send", "start", "" when idle
  cmd,          \* per thread: the command being sent
  tmp,          \* per thread: command_id as read on line 624
  now,          \* per thread: the local now of send_command
  i,            \* per thread: the slot index of the for loop
  success,      \* per thread: the local success of send_command
  calls,        \* calls started so far
  assigned,     \* history: per thread, the number its send stored (line 624)
  sat,          \* history: per thread, all slots existed when its
                \*          send_command began and none was removed since
  seen,         \* history: per thread, the slots its current scan found
                \*          existing
  wrote,        \* history: per thread, the writes of its send_command, each
                \*          <<slot, existed before, text>>
  carried,      \* history: per thread, the number its send_command carries:
                \*          the one it serialized or, if it gave up, the
                \*          counter at that moment
  pred,         \* history: per thread, last_carried when carried was set
  last_carried, \* history: the number carried by the latest send_command
                \*          that wrote or gave up; NoId at first and after a
                \*          reset of the counter
  event_handler,  \* self.event_handler is set
  market_file,    \* Market_Data.json as the terminal left it
  market_data,    \* self.market_data
  market_call,    \* the running call of check_market_data: its position,
                  \* its local data, the keys its loop has still to visit,
                  \* and history: the on_tick calls it made, the cache when
                  \* it began, whether it read what the call before it read
  market_last,    \* history: what the latest finished call read
  bar_file,       \* Bar_Data.json as the terminal left it
  bar_data,       \* self.bar_data
  bar_call,       \* the running call of check_bar_data, as market_call
  orders_file,    \* Orders.json as the terminal left it
  open_orders,    \* self.open_orders
  account_info,   \* self.account_info
  orders_stored,  \* Orders_Stored.json, the mirror file
  orders_call,    \* the running call of check_open_orders: its position,
                  \* its locals, and history: the on_order_event calls it
                  \* made, the caches and the mirror when it began
  messages_file,  \* Messages.json as the terminal left it
  messages,       \* self.messages: the INFO and the ERROR log
  last_messages_millis,  \* self._last_messages_millis
  messages_call,  \* the running call of check_messages: its position, its
                  \* locals, and history: what it appended and raised, the
                  \* high-water mark when it began
  messages_last,  \* history: what the latest finished call read, and the
                  \* timestamps handled by all calls so far
  trades_file,    \* Historical_Trades.json as the terminal left it
  historical_trades,  \* self.historical_trades
  trades_call,    \* the running call of check_historical_trades: its
                  \* position, and history: what it read, the cache when
                  \* it began
  historical_files,   \* symbol |-> Historical_Data_<symbol>.json as the
                      \* terminal left it
  historical_data,    \* self.historical_data
  successful_symbols, \* self.successful_symbols
  history_call,   \* the running call of check_historical_data: its
                  \* position, its locals, and history: the
                  \* on_historical_data calls it made, the slot files it
                  \* removed, the state when it began
  ACTIVE,         \* self.ACTIVE
  loops,          \* per worker thread: where it is in its loop, and
                  \* history: what it found when it began its poll
  forex_lock,     \* whether the file Files.FOREX_LOCK exists
  runs            \* per execution of handle(): its position, the START
                  \* flag of its process's bridge, its wall clock, the
                  \* symbols it still has to backfill, and history:
                  \* whether it is between its lock() and its unlock(),
                  \* and how it left main(): at its end or by an error

vars == <<command_id, lock, slots, env, START, workers, clock, pc, kind, cmd,
          tmp, now, i, success, calls, assigned, sat, seen, wrote, carried,
          pred, last_carried, event_handler, market_file, market_data,
          market_call, market_last, bar_file, bar_data, bar_call,
          orders_file, open_orders, account_info, orders_stored, orders_call,
          messages_file, messages, last_messages_millis, messages_call,
          messages_last, trades_file, historical_trades, trades_call,
          historical_files, historical_data, successful_symbols,
          history_call, ACTIVE, loops, forex_lock, runs>>

locals == <<tmp, now, i, success>>

channel == <<command_id, lock, slots>>

facade == <<env, START, workers>>

history == <<assigned, sat, seen, wrote, carried, pred, last_carried>>

\* the command channel and the threads that use it
bridge == <<command_id, lock, slots, env, START, workers, clock, pc, kind,
            cmd, tmp, now, i, success, calls, assigned, sat, seen, wrote,
            carried, pred, last_carried>>

market == <<market_file, market_data, market_call, market_last>>

bar == <<bar_file, bar_data, bar_call>>

reconciler == <<orders_file, open_orders, account_info, orders_stored,
                orders_call>>

inbox == <<messages_file, messages, last_messages_millis, messages_call,
           messages_last>>

trades == <<trades_file, historical_trades, trades_call>>

tracker == <<historical_files, historical_data, successful_symbols,
             history_call>>

lifecycle == <<ACTIVE, loops>>

\* the run lock and the executions of handle()
orchestration == <<forex_lock, runs>>

\* historical trades, the backfill tracker, the worker threads and the
\* executions of handle()
others == <<trades, tracker, lifecycle, orchestration>>

\* the inbound side: the snapshot files, their caches and their pollers
pollers == <<event_handler, market, bar, reconciler, inbox, others>>

(***************************************************************************)
(* Inbound snapshots.  A decoded JSON object is a function from its keys   *)
(* to its values; a snapshot file is missing, empty, or holds an object.   *)
(***************************************************************************)
EmptyDict == [k \in {} |-> 0]

\* try_load_json: the decoded object, {} when the file is missing, empty or
\* cannot be decoded
TryLoadJson(file) == IF file.state = "json" THEN file.json ELSE EmptyDict

\* len(d) of a dict
DictLen(d) == Cardinality(DOMAIN d)

UnreadableFiles ==
  { [state |-> st, json |-> EmptyDict] : st \in {"missing", "empty"} }

\* the snapshot files that hold one of the objects of set objects
JsonFiles(objects) == { [state |-> "json", json |-> d] : d \in objects }

\* no call is running
NoCall == [pc |-> "idle"]

\* no call has finished yet
NoLast == [valid |-> FALSE, data |-> EmptyDict]

Symbols == {"EURUSD", "GBPUSD"}

\* the entries of Market_Data.json
Quotes == { [bid |-> 1, ask |-> 2], [bid |-> 1, ask |-> 3] }

MarketSnapshots == UNION { [S -> Quotes] : S \in SUBSET Symbols }

MarketFiles == UnreadableFiles \cup JsonFiles(MarketSnapshots)

\* market data right after __init__: no snapshot file, no call running
MarketAtRest ==
  /\ market_file = [state |-> "missing", json |-> EmptyDict]
  /\ market_data = EmptyDict
  /\ market_call = NoCall
  /\ market_last = NoLast

\* one character per element: 'EU_M1' is <<"E", "U", "_", "M", "1">>
BarKeys == { <<"E", "U", "_", "M", "1">>, <<"G", "B", "_", "H", "1">> }

\* the entries of Bar_Data.json: parallel arrays, one element per bar
Bars ==
  { [time |-> <<100>>, open |-> <<1>>, high |-> <<3>>, low |-> <<1>>,
     close |-> <<c>>, tick_volume |-> <<7>>] : c \in {2, 3} }

BarSnapshots == UNION { [S -> Bars] : S \in SUBSET BarKeys }

BarFiles == UnreadableFiles \cup JsonFiles(BarSnapshots)

\* bar data right after __init__
BarAtRest ==
  /\ bar_file = [state |-> "missing", json |-> EmptyDict]
  /\ bar_data = EmptyDict
  /\ bar_call = NoCall

\* a JSON value inside a decoded object: a map, something that is no map
\* (an array), or the None that dict.get gives for a key that is not there
JsonMap(f) == [kind |-> "map", val |-> f]

JsonList == [kind |-> "list", val |-> EmptyDict]

JsonNone == [kind |-> "none", val |-> EmptyDict]

\* the keys of the orders map: tickets, as JSON writes them
TicketKeys == {"7", "9"}

\* the entries of the orders map; SL stands for the fields that change
\* while an order lives
RawOrders ==
  { [open_price |-> 1, SL |-> sl, TP |-> 0, lots |-> 1, symbol |-> "EURUSD",
     type |-> "buy", magic |-> 0, comment |-> "c", pnl |-> 0] :
    sl \in {0, 1} }

OrderMaps == UNION { [S -> RawOrders] : S \in SUBSET TicketKeys }

AccountMaps == { [k \in {"balance"} |-> b] : b \in {100, 200} }

\* the decoded Orders.json: each of 'orders' and 'account_info' is a map,
\* is something else, or is not there
OrdersSnapshots ==
  LET values == {JsonList} \cup
                  { JsonMap(m) : m \in OrderMaps \cup AccountMaps }
  IN UNION { [K -> values] : K \in SUBSET {"orders", "account_info"} }

\* the snapshots the terminal writes, and the damaged ones
OrdersData ==
  { d \in OrdersSnapshots :
      /\ "orders" \in DOMAIN d => d["orders"].val \in OrderMaps
      /\ "account_info" \in DOMAIN d =>
           d["account_info"].val \in AccountMaps \cup {EmptyDict} }

OrdersFiles == UnreadableFiles \cup JsonFiles(OrdersData)

\* a snapshot file that is not there
MissingFile == [state |-> "missing", json |-> EmptyDict]

\* the Orders_Stored.json an earlier run left
StaleOrdersStored ==
  [state |-> "json",
   json |-> [k \in {"orders", "account_info"} |->
               IF k = "orders"
                 THEN JsonMap([t \in {"7"} |->
                                 CHOOSE o \in RawOrders : o.SL = 0])
                 ELSE JsonMap([b \in {"balance"} |-> 100])]]

\* the order book right after __init__
ReconcilerAtRest ==
  /\ orders_file = MissingFile
  /\ open_orders = <<>>
  /\ account_info = JsonMap(EmptyDict)
  /\ orders_call = NoCall

\* no mirror file yet
MirrorAtRest == orders_stored = MissingFile

\* the keys of Messages.json: timestamps in milliseconds as JSON writes
\* them, one decimal digit per element: '10' is <<1, 0>>
MillisKeys == { <<3>>, <<5>>, <<9>>, <<1, 0>> }

\* the entry of Messages.json under key millis, as list(message.values()):
\* the type first.  The terminal wrote one message at each timestamp.
MessageAt(millis) ==
  IF millis \in { <<5>>, <<1, 0>> } THEN <<"ERROR", "order failed">>
  ELSE <<"INFO", "connected">>

MessagesSnapshots ==
  { [millis \in S |-> MessageAt(millis)] : S \in SUBSET MillisKeys }

MessagesFiles == UnreadableFiles \cup JsonFiles(MessagesSnapshots)

\* self.messages = {'INFO': [], 'ERROR': []}
NoMessages == [INFO |-> <<>>, ERROR |-> <<>>]

\* the messages right after __init__
InboxAtRest ==
  /\ messages_file = MissingFile
  /\ messages = NoMessages
  /\ last_messages_millis = 0
  /\ messages_call = NoCall
  /\ messages_last = [valid |-> FALSE, data |-> EmptyDict, handled |-> <<>>]

\* the keys of Historical_Trades.json: the tickets of the closed deals
TradeKeys == {"11", "12"}

\* the entries of Historical_Trades.json
Deals ==
  { [symbol |-> "EURUSD", lots |-> 1, pnl |-> p] : p \in {1, 2} }

\* the decoded Historical_Trades.json; the terminal writes {} when the
\* account has no closed deal in the lookback window
TradesSnapshots == UNION { [S -> Deals] : S \in SUBSET TradeKeys }

TradesFiles == UnreadableFiles \cup JsonFiles(TradesSnapshots)

\* the historical trades right after __init__
TradesAtRest ==
  /\ trades_file = MissingFile
  /\ historical_trades = EmptyDict
  /\ trades_call = NoCall

\* Config.symbols, the symbols the run asks historical data for
ConfigSymbols == {"A", "B", "C"}

\* self.historical_data[symbol] is not set
NoSeries == [set |-> FALSE, index |-> <<>>]

\* the backfill tracker right after __init__
TrackerAtRest ==
  /\ historical_files = [symbol \in ConfigSymbols |-> MissingFile]
  /\ historical_data = [symbol \in ConfigSymbols |-> NoSeries]
  /\ successful_symbols = {}
  /\ history_call = NoCall

\* the worker threads one start() after the other spawns, with one
\* category enabled in Config
Workers == 1..MaxCalls

\* a worker thread before its first test of self.ACTIVE; stopped and late
\* count the polls it began with START false since the last stop() and
\* with ACTIVE false since the last deactivate()
NoLoop == [pos |-> "while", stopped |-> 0, late |-> 0]

\* the flags and the worker threads right after __init__
LifecycleAtRest ==
  /\ ACTIVE = TRUE
  /\ loops = [w \in Workers |-> NoLoop]

\* the two executions of handle() that the scheduler may overlap
Executions == {"first", "second"}

\* an execution before handle() is called
NoRun == [pc |-> "idle", START |-> FALSE, minute |-> 0, rs |-> {},
          locked |-> FALSE, how |-> "none"]

\* no run lock, no execution under way
OrchestrationAtRest ==
  /\ forex_lock = FALSE
  /\ runs = [e \in Executions |-> NoRun]

OthersAtRest ==
  /\ TradesAtRest
  /\ TrackerAtRest
  /\ LifecycleAtRest
  /\ OrchestrationAtRest

\* the inbound side right after __init__, with no handler
PollersAtRest ==
  /\ event_handler = FALSE
  /\ MarketAtRest
  /\ BarAtRest
  /\ ReconcilerAtRest
  /\ MirrorAtRest
  /\ InboxAtRest
  /\ OthersAtRest

\* the values command_id may hold when a behaviour begins: 0 right after
\* __init__, or the value reached late in a long run without a reset
InitialCommandIds == {0, CommandIdModulus - 2}

\* path_commands_prefix is set by set_agent_paths only if mt_files_path exists
PathsSet == env # "no_mt_path"

Saturated == \A s \in Slots : slots[s] # NoFile

ChannelInit ==
  /\ env \in {"ok", "no_mt_path", "unwritable"}
  /\ slots \in { [s \in Slots |-> NoFile] } \cup
               (IF env = "ok" THEN { [s \in Slots |-> StaleFile] } ELSE {})
  /\ command_id \in (IF env = "ok" /\ ~Saturated THEN InitialCommandIds
                      ELSE {0})
  /\ lock = NoThread
  /\ START = FALSE
  /\ workers = 0
  /\ clock = 0
  /\ pc = [t \in Senders |-> "idle"]
  /\ kind = [t \in Senders |-> ""]
  /\ cmd = [t \in Senders |-> NoCommand]
  /\ tmp = [t \in Senders |-> 0]
  /\ now = [t \in Senders |-> 0]
  /\ i = [t \in Senders |-> 0]
  /\ success = [t \in Senders |-> FALSE]
  /\ calls = 0
  /\ assigned = [t \in Senders |-> NoId]
  /\ sat = [t \in Senders |-> FALSE]
  /\ seen = [t \in Senders |-> {}]
  /\ wrote = [t \in Senders |-> <<>>]
  /\ carried = [t \in Senders |-> NoId]
  /\ pred = [t \in Senders |-> NoId]
  /\ last_carried = NoId

Init == ChannelInit /\ PollersAtRest

\* the command channel right after __init__ in a shared directory that
\* exists, with no command pending
ChannelAtRest ==
  /\ ChannelInit
  /\ env = "ok"
  /\ command_id = 0
  /\ ~Saturated

\* the caller gets control back: the call's locals are gone
Return(t) ==
  /\ pc' = [pc EXCEPT ![t] = "idle"]
  /\ kind' = [kind EXCEPT ![t] = ""]
  /\ cmd' = [cmd EXCEPT ![t] = NoCommand]
  /\ tmp' = [tmp EXCEPT ![t] = 0]
  /\ now' = [now EXCEPT ![t] = 0]
  /\ i' = [i EXCEPT ![t] = 0]
  /\ success' = [success EXCEPT ![t] = FALSE]
  /\ assigned' = [assigned EXCEPT ![t] = NoId]
  /\ sat' = [sat EXCEPT ![t] = FALSE]
  /\ seen' = [seen EXCEPT ![t] = {}]
  /\ wrote' = [wrote EXCEPT ![t] = <<>>]
  /\ carried' = [carried EXCEPT ![t] = NoId]
  /\ pred' = [pred EXCEPT ![t] = NoId]

\* an exception leaves send_command (and start) at once: nothing after the
\* raising statement runs, lock.release() included.  The exception goes to
\* the caller of the bridge; the thread makes no further call.
Raise(t) ==
  /\ pc' = [pc EXCEPT ![t] = "raised"]
  /\ UNCHANGED <<channel, facade, clock, kind, cmd, locals, calls, history>>

(***************************************************************************)
(* The public operations, as called by a thread.                           *)
(***************************************************************************)
\* thread t enters the bridge: one more call
Enter(t) ==
  /\ pc[t] = "idle"
  /\ calls < MaxCalls
  /\ calls' = calls + 1

\* a public command method calls send_command(verb, content)
CallSend(t) ==
  /\ Enter(t)
  /\ \E c \in Commands : cmd' = [cmd EXCEPT ![t] = c]
  /\ kind' = [kind EXCEPT ![t] = "send"]
  /\ pc' = [pc EXCEPT ![t] = "acquire"]
  /\ sat' = [sat EXCEPT ![t] = Saturated]
  /\ UNCHANGED <<channel, facade, clock, locals, assigned, seen, wrote,
                 carried, pred, last_carried>>
  /\ UNCHANGED pollers

\* start(): self.START = True, then send_reset_command_ids_command()
Start(t) ==
  /\ t = Orchestrator
  /\ Enter(t)
  /\ START' = TRUE
  /\ kind' = [kind EXCEPT ![t] = "start"]
  /\ cmd' = [cmd EXCEPT ![t] = ResetCommand]
  /\ pc' = [pc EXCEPT ![t] = "reset"]
  /\ UNCHANGED <<channel, env, workers, clock, locals, history>>
  /\ UNCHANGED pollers

\* send_reset_command_ids_command: self.command_id = 0, with no lock taken,
\* then send_command('RESET_COMMAND_IDS', '')
ResetCommandId(t) ==
  /\ pc[t] = "reset"
  /\ command_id' = 0
  /\ last_carried' = NoId
  /\ pc' = [pc EXCEPT ![t] = "acquire"]
  /\ sat' = [sat EXCEPT ![t] = Saturated]
  /\ UNCHANGED <<lock, slots, facade, clock, kind, cmd, locals, calls,
                 assigned, seen, wrote, carried, pred>>
  /\ UNCHANGED pollers

(***************************************************************************)
(* send_command, step by step.                                             *)
(***************************************************************************)
\* acquire() that never blocks
LockFreeAlways == TRUE

\* Lock.acquire() goes through only while nobody holds the lock
LockFree == lock = NoThread

\* self.lock.acquire()
Acquire(t) ==
  /\ pc[t] = "acquire"
  /\ LockFree
  /\ lock' = t
  /\ pc' = [pc EXCEPT ![t] = "load"]
  /\ UNCHANGED <<command_id, slots, facade, clock, kind, cmd, locals, calls,
                 history>>
  /\ UNCHANGED pollers

\* the read of self.command_id on line 624
LoadCommandId(t) ==
  /\ pc[t] = "load"
  /\ tmp' = [tmp EXCEPT ![t] = command_id]
  /\ pc' = [pc EXCEPT ![t] = "store"]
  /\ UNCHANGED <<channel, facade, clock, kind, cmd, now, i, success, calls,
                 history>>
  /\ UNCHANGED pollers

\* line 624 without the modulus
NextCommandIdUnbounded(read) == read + 1

\* the value line 624 stores
NextCommandId(read) == (read + 1) % CommandIdModulus

\* the write of self.command_id on line 624; end_time = now() + max_retry is
\* computed next, which opens the retry window
StoreCommandId(t) ==
  /\ pc[t] = "store"
  /\ command_id' = NextCommandId(tmp[t])
  /\ assigned' = [assigned EXCEPT ![t] = NextCommandId(tmp[t])]
  /\ clock' = 0
  /\ pc' = [pc EXCEPT ![t] = "now"]
  /\ UNCHANGED <<lock, slots, facade, kind, cmd, locals, calls, sat, seen,
                 wrote, carried, pred, last_carried>>
  /\ UNCHANGED pollers

\* end_time taken as now(), the retry window forgotten
InWindowNoRetry(n) == n < 0

\* while now < end_time
InWindow(n) == n < max_retry_command_seconds

\* where the while loop goes with now = n: into a scan (success = False,
\* i = 0) or past the loop to lock.release()
EnterLoop(t, n) ==
  /\ now' = [now EXCEPT ![t] = n]
  /\ pc' = [pc EXCEPT ![t] = IF InWindow(n) THEN "for" ELSE "release"]
  /\ i' = [i EXCEPT ![t] = 0]
  /\ success' = [success EXCEPT ![t] = FALSE]
  /\ seen' = [seen EXCEPT ![t] = {}]
  /\ IF InWindow(n)
       THEN UNCHANGED <<carried, pred, last_carried>>
       ELSE /\ carried' = [carried EXCEPT ![t] = command_id]
            /\ pred' = [pred EXCEPT ![t] = last_carried]
            /\ last_carried' = command_id

\* now = datetime.now(...) before the loop
SampleNow(t) ==
  /\ pc[t] = "now"
  /\ EnterLoop(t, clock)
  /\ UNCHANGED <<channel, facade, clock, kind, cmd, tmp, calls, assigned,
                 sat, wrote>>
  /\ UNCHANGED pollers

\* the test of the slot file dropped
ExistsNever(s) == FALSE

\* exists(file_path) for slot s
Exists(s) == slots[s] # NoFile

\* a for loop that steps over every other slot
NextSlotSkipping(k) == k + 2

\* the index after k in range(num_command_files)
NextSlot(k) == k + 1

\* one iteration of for i in range(num_command_files), up to exists():
\* building file_path fails when path_commands_prefix was never set
ExamineSlot(t) ==
  /\ pc[t] = "for"
  /\ IF ~PathsSet
       THEN Raise(t)
       ELSE /\ IF Exists(i[t])
                 THEN /\ seen' = [seen EXCEPT ![t] = @ \cup {i[t]}]
                      /\ IF NextSlot(i[t]) < num_command_files
                           THEN /\ i' = [i EXCEPT ![t] = NextSlot(@)]
                                /\ pc' = pc
                           ELSE /\ i' = i
                                /\ pc' = [pc EXCEPT ![t] = "sleep"]
                 ELSE /\ pc' = [pc EXCEPT ![t] = "open"]
                      /\ UNCHANGED <<i, seen>>
            /\ UNCHANGED <<channel, facade, clock, kind, cmd, tmp, now,
                           success, calls, assigned, sat, wrote, carried,
                           pred, last_carried>>
  /\ UNCHANGED pollers

\* with open(file_path, 'w') as f: f.write(...); success = True; break
WriteSlot(t) ==
  /\ pc[t] = "open"
  /\ IF env = "unwritable"
       THEN Raise(t)
       ELSE LET text == CommandText(command_id, cmd[t].verb, cmd[t].content)
            IN /\ slots' = [slots EXCEPT ![i[t]] = text]
               /\ success' = [success EXCEPT ![t] = TRUE]
               /\ pc' = [pc EXCEPT ![t] = "release"]
               /\ wrote' = [wrote EXCEPT ![t] =
                              Append(@, <<i[t], slots[i[t]] # NoFile, text>>)]
               /\ carried' = [carried EXCEPT ![t] = command_id]
               /\ pred' = [pred EXCEPT ![t] = last_carried]
               /\ last_carried' = command_id
               /\ UNCHANGED <<command_id, lock, facade, clock, kind, cmd,
                              tmp, now, i, calls, assigned, sat, seen>>
  /\ UNCHANGED pollers

\* sleep(self.sleep_delay); now = datetime.now(...): at least one unit passes
Sleep(t) ==
  /\ pc[t] = "sleep"
  /\ \E d \in 1..max_retry_command_seconds :
       LET n == Min(clock + d, max_retry_command_seconds)
       IN /\ clock' = n
          /\ EnterLoop(t, n)
  /\ UNCHANGED <<channel, facade, kind, cmd, tmp, calls, assigned, sat,
                 wrote>>
  /\ UNCHANGED pollers

\* self.lock.release(), then back to the caller: send_command returns, or
\* the reset sleeps 0.5 s and start goes on to spawn the pollers
Release(t) ==
  /\ pc[t] = "release"
  /\ lock' = NoThread
  /\ IF kind[t] = "start"
       THEN /\ pc' = [pc EXCEPT ![t] = "spawn"]
            /\ UNCHANGED <<kind, cmd, locals, assigned, sat, seen, wrote,
                           carried, pred>>
       ELSE Return(t)
  /\ UNCHANGED <<command_id, slots, facade, clock, calls, last_carried>>
  /\ UNCHANGED pollers

\* start(): one start_thread per enabled category
SpawnPollers(t) ==
  /\ pc[t] = "spawn"
  /\ workers' = workers + 1
  /\ Return(t)
  /\ UNCHANGED <<channel, env, START, clock, calls, last_carried>>
  /\ UNCHANGED pollers

(***************************************************************************)
(* The environment.                                                        *)
(***************************************************************************)
\* the terminal consumes a command: it deletes the slot file
ReceiverDelete(s) ==
  /\ slots[s] # NoFile
  /\ slots' = [slots EXCEPT ![s] = NoFile]
  /\ sat' = [t \in Senders |-> FALSE]
  /\ UNCHANGED <<command_id, lock, facade, clock, pc, kind, cmd, locals,
                 calls, assigned, seen, wrote, carried, pred, last_carried>>
  /\ UNCHANGED pollers

\* time passes between the reading of the clock for end_time and the one
\* for now
Tick ==
  /\ lock # NoThread
  /\ pc[lock] = "now"
  /\ clock < max_retry_command_seconds
  /\ clock' = clock + 1
  /\ UNCHANGED <<channel, facade, pc, kind, cmd, locals, calls, history>>
  /\ UNCHANGED pollers

SenderStep(t) ==
  \/ CallSend(t) \/ Start(t) \/ ResetCommandId(t)
  \/ Acquire(t) \/ LoadCommandId(t) \/ StoreCommandId(t)
  \/ SampleNow(t) \/ ExamineSlot(t) \/ WriteSlot(t) \/ Sleep(t)
  \/ Release(t) \/ SpawnPollers(t)

Next ==
  \/ \E t \in Senders : SenderStep(t)
  \/ \E s \in Slots : ReceiverDelete(s)
  \/ Tick

Spec == Init /\ [][Next]_vars

(***************************************************************************)
(* Properties of the command channel.                                      *)
(***************************************************************************)
\* thread t is between lock.acquire() and lock.release() of send_command
InSendCommand(t) ==
  pc[t] \in {"load", "store", "now", "for", "open", "sleep", "release"}

\* thread t has passed line 624 and is still inside send_command
Advanced(t) == pc[t] \in {"now", "for", "open", "sleep", "release"}

\* send_command of thread t is over but for lock.release()
Ended(t) == pc[t] = "release"

\* C1: every send_command advances the counter exactly once, before its
\* first scan and so whether it writes or gives up, to (the value it read
\* under the lock + 1) mod 100000; the counter stays in 0..99999; and a
\* send_command that ends with no reset of the counter since the send before
\* it ended carries that send's number + 1 mod 100000.
C1_SequenceAdvances ==
  /\ command_id \in 0..(CommandIdModulus - 1)
  /\ \A t \in Senders :
       /\ pc[t] \in {"idle", "reset", "acquire", "load", "store"} =>
            assigned[t] = NoId
       /\ Advanced(t) =>
            /\ assigned[t] = (tmp[t] + 1) % CommandIdModulus
            /\ assigned[t] \in 0..(CommandIdModulus - 1)
       /\ (Ended(t) /\ pred[t] # NoId) =>
            carried[t] = (pred[t] + 1) % CommandIdModulus

\* the counter wraps: a send carries 0 right after one that carried 99999
C1_Witness ==
  \E t \in Senders :
    Ended(t) /\ carried[t] = 0 /\ pred[t] = CommandIdModulus - 1

\* C2: send_command never writes into a slot file that exists: every write
\* of a command finds its slot absent, for any interleaving of the senders
\* and of the receiver's deletions.
C2_NoOverwrite ==
  \A t \in Senders : \A k \in 1..Len(wrote[t]) : ~wrote[t][k][2]

\* a sender has written slot 1 while slot 0 still holds a command that a
\* sender wrote and the receiver has not consumed
C2_Witness ==
  \E t \in Senders :
    /\ Ended(t) /\ Len(wrote[t]) = 1 /\ wrote[t][1][1] = 1
    /\ slots[0] \notin {NoFile, StaleFile}
    /\ slots[1] = wrote[t][1][3]

\* C3: a send_command that began with every slot file present, none of
\* which was removed since, raises no error and writes no slot, and when it
\* is over the deadline has passed: its last reading of the clock is not
\* before end_time.
C3_SaturatedSendIsDropped ==
  \A t \in Senders :
    sat[t] =>
      /\ pc[t] # "raised"
      /\ wrote[t] = <<>>
      /\ ~success[t]
      /\ Saturated
      /\ Ended(t) =>
           /\ now[t] >= max_retry_command_seconds
           /\ clock >= max_retry_command_seconds

\* a send_command that found all slots taken during its whole window ends
C3_Witness ==
  \E t \in Senders : sat[t] /\ Ended(t) /\ kind[t] = "send"

\* C4: a send_command that finds a free slot creates exactly one slot file,
\* whose text is '<:' + sequence + '|' + verb + '|' + payload + ':>' with
\* sequence the number assigned to this command on line 624; the payload of
\* OPEN_ORDER is symbol, type, lots, price, stop-loss, take-profit, magic,
\* comment, expiration, comma-separated in that order.
C4_SlotHoldsAssignedNumber ==
  \A t \in Senders :
    (Ended(t) /\ success[t]) =>
      /\ Len(wrote[t]) = 1
      /\ ~wrote[t][1][2]
      /\ wrote[t][1][3] = "<:" \o ToString(assigned[t]) \o "|" \o cmd[t].verb
                            \o "|" \o cmd[t].content \o ":>"
      /\ cmd[t].verb = "OPEN_ORDER" =>
           \E o \in Orders :
             cmd[t].content =
               o.symbol \o "," \o o.order_type \o "," \o o.lots \o ","
                 \o ToString(o.price) \o "," \o ToString(o.stop_loss) \o ","
                 \o ToString(o.take_profit) \o "," \o ToString(o.magic)
                 \o "," \o o.comment \o "," \o ToString(o.expiration)

\* C5: a scan examines the slots in ascending order from 0: when it is
\* about to examine or to write slot i it has found exactly the slots below
\* i existing, it sleeps only after finding every slot existing, and after
\* its write it has examined no slot above the one it wrote.
C5_LowestFreeSlot ==
  \A t \in Senders :
    /\ pc[t] \in {"for", "open"} =>
         /\ i[t] \in Slots
         /\ seen[t] = 0..(i[t] - 1)
    /\ pc[t] = "sleep" => seen[t] = Slots
    /\ (Ended(t) /\ success[t]) =>
         /\ Len(wrote[t]) = 1
         /\ wrote[t][1][1] = i[t]
         /\ seen[t] = 0..(i[t] - 1)

\* a send has written slot 1 after finding slot 0 taken, and is over
C5_Witness ==
  \E t \in Senders :
    Ended(t) /\ success[t] /\ seen[t] = {0} /\ wrote[t][1][1] = 1

\* C6: however send_command ends, the lock is released: the lock is held
\* only by a thread that is inside send_command.
C6_LockReleasedOnEveryExit ==
  lock # NoThread => InSendCommand(lock)

\* C7: at most one thread is between lock.acquire() and lock.release(), and
\* it is the one recorded as holding the lock: while a sender scans or
\* sleeps no other thread is at the store of the counter or at a write of a
\* slot, and a number that was assigned and is not yet written or given up
\* belongs to the lock holder, so writes follow the order of assignment.
C7_OneSenderAtATime ==
  /\ \A t \in Senders : InSendCommand(t) => lock = t
  /\ \A t, u \in Senders :
       (t # u /\ InSendCommand(t)) => ~InSendCommand(u)
  /\ \A t \in Senders :
       (assigned[t] # NoId /\ carried[t] = NoId /\ pc[t] # "raised") =>
         lock = t

\* a sender sleeps on saturated slots while another waits for the lock
C7_Witness ==
  \E t, u \in Senders : pc[t] = "sleep" /\ pc[u] = "acquire"

\* C8: the counter is read and written only under the lock: while a sender
\* is inside send_command past line 624 the counter is the number it
\* assigned, the number it serializes is that number, and it differs from
\* the number of the send before it; also while another thread runs start().
\* Stated for a shared directory that exists and is writable.
C8_CounterOnlyUnderLock ==
  \A t \in Senders :
    /\ (env = "ok" /\ Advanced(t)) => command_id = assigned[t]
    /\ (Ended(t) /\ success[t]) =>
         \A k \in 1..Len(wrote[t]) :
           wrote[t][k][3] =
             CommandText(assigned[t], cmd[t].verb, cmd[t].content)
    /\ (Ended(t) /\ pred[t] # NoId) => carried[t] # pred[t]

\* C9: every send_command terminates: a sender waiting for the lock waits
\* for a thread that is inside send_command, whose window is bounded; and a
\* sender sleeps only after a scan that found every slot taken.
C9_EverySendTerminates ==
  \A t \in Senders :
    /\ pc[t] = "acquire" => (lock = NoThread \/ InSendCommand(lock))
    /\ InSendCommand(t) =>
         (clock <= max_retry_command_seconds /\ now[t] <= clock)
    /\ pc[t] = "sleep" => (seen[t] = Slots /\ InWindow(now[t]))

\* C10: start() resets the counter and sends one RESET_COMMAND_IDS, which
\* carries number 1, before it spawns the pollers.  Stated for a shared
\* directory that exists and is writable.
C10_StartSendsResetNumberOne ==
  \A t \in Senders :
    (env = "ok" /\ kind[t] = "start") =>
      /\ cmd[t] = ResetCommand
      /\ Advanced(t) => assigned[t] = 1
      /\ (Ended(t) /\ success[t]) =>
           /\ Len(wrote[t]) = 1
           /\ wrote[t][1][3] = "<:1|RESET_COMMAND_IDS|:>"
      /\ pc[t] = "spawn" =>
           /\ assigned[t] # NoId
           /\ carried[t] # NoId
           /\ lock # t

(***************************************************************************)
(* check_market_data.  The poller of a category is one thread, so the      *)
(* calls of check_market_data follow one another.  The terminal replaces   *)
(* the snapshot file between them: the call reads the file once, at its    *)
(* start, so a replacement during the call is one after it.                *)
(***************************************************************************)
\* self.market_data left as it was
KeepMarketCache(data, cache) == cache

\* self.market_data = data
NewMarketCache(data, cache) == data

\* a test that looks at the bid only
TickCondBidOnly(symbol, data, cache) ==
  symbol \notin DOMAIN cache \/ data[symbol].bid # cache[symbol].bid

\* cond = symbol not in self.market_data
\* cond = cond or data[symbol] != self.market_data.get(symbol)
TickCond(symbol, data, cache) ==
  symbol \notin DOMAIN cache \/ data[symbol] # cache[symbol]

\* the terminal writes Market_Data.json
MarketWrite ==
  /\ market_call.pc = "idle"
  /\ \E f \in MarketFiles : f # market_file /\ market_file' = f
  /\ UNCHANGED <<bridge, bar, reconciler, inbox, event_handler, others>>
  /\ UNCHANGED <<market_data, market_call, market_last>>

\* data = try_load_json(self.path_market_data) and the test
\* len(data) > 0 and data != self.market_data
CheckMarketData ==
  /\ market_call.pc = "idle"
  /\ LET data == TryLoadJson(market_file)
         differs == DictLen(data) > 0 /\ data # market_data
     IN market_call' =
          [pc |-> IF ~differs THEN "return"
                  ELSE IF event_handler THEN "for" ELSE "store",
           data |-> data,
           todo |-> IF differs /\ event_handler THEN DOMAIN data ELSE {},
           events |-> <<>>,
           before |-> market_data,
           differs |-> differs,
           again |-> market_last.valid /\ market_last.data = data]
  /\ UNCHANGED <<bridge, bar, reconciler, inbox, event_handler, others>>
  /\ UNCHANGED <<market_file, market_data, market_last>>

\* one iteration of for symbol in data.keys(): on_tick if cond
MarketTick ==
  /\ market_call.pc = "for"
  /\ \E symbol \in market_call.todo :
       LET data == market_call.data
           left == market_call.todo \ {symbol}
           tick == [symbol |-> symbol, bid |-> data[symbol].bid,
                    ask |-> data[symbol].ask]
       IN market_call' =
            [market_call EXCEPT
               !.todo = left,
               !.events = IF TickCond(symbol, data, market_data)
                            THEN Append(@, tick) ELSE @,
               !.pc = IF left = {} THEN "store" ELSE "for"]
  /\ UNCHANGED <<bridge, bar, reconciler, inbox, event_handler, others>>
  /\ UNCHANGED <<market_file, market_data, market_last>>

\* self.market_data = data
MarketStore ==
  /\ market_call.pc = "store"
  /\ market_data' = NewMarketCache(market_call.data, market_data)
  /\ market_call' = [market_call EXCEPT !.pc = "return"]
  /\ UNCHANGED <<bridge, bar, reconciler, inbox, event_handler, others>>
  /\ UNCHANGED <<market_file, market_last>>

\* return self.market_data
MarketReturn ==
  /\ market_call.pc = "return"
  /\ market_last' = [valid |-> TRUE, data |-> market_call.data]
  /\ market_call' = NoCall
  /\ UNCHANGED <<bridge, bar, reconciler, inbox, event_handler, others>>
  /\ UNCHANGED <<market_file, market_data>>

MarketInit ==
  /\ ChannelAtRest
  /\ event_handler \in BOOLEAN
  /\ MarketAtRest
  /\ BarAtRest
  /\ ReconcilerAtRest
  /\ MirrorAtRest
  /\ InboxAtRest
  /\ OthersAtRest

MarketNext ==
  \/ MarketWrite \/ CheckMarketData \/ MarketTick \/ MarketStore
  \/ MarketReturn

MarketSpec == MarketInit /\ [][MarketNext]_vars

\* the symbols of on_tick calls made so far by the running call
TickSymbols == { market_call.events[k].symbol :
                   k \in 1..Len(market_call.events) }

\* C11: a call of check_market_data that reads a snapshot equal to the one
\* the call before it read makes no on_tick call and leaves the cache as it
\* found it.
C11_EqualSnapshotNoTick ==
  (market_call.pc = "return" /\ market_call.again) =>
    /\ market_call.events = <<>>
    /\ market_data = market_call.before

\* a second call on an equal, non-empty snapshot, with a handler set, ends
C11_Witness ==
  /\ market_call.pc = "return" /\ market_call.again
  /\ event_handler
  /\ DictLen(market_call.data) = 2

\* C12: a call that reads a non-empty snapshot that differs from the cache
\* keeps the cache as it found it while it makes its on_tick calls; when the
\* loop is over it has called on_tick once, with the new bid and ask, for
\* each symbol of the snapshot that the cache lacked or held with another
\* entry, and for no other symbol; when it returns the cache is the snapshot.
\* With no handler set there is nobody to call, and the cache is replaced
\* all the same.
C12_TickPerChangedSymbol ==
  (market_call.pc # "idle" /\ market_call.differs) =>
    LET data == market_call.data
        before == market_call.before
        events == market_call.events
        changed == { s \in DOMAIN data :
                       s \notin DOMAIN before \/ data[s] # before[s] }
    IN /\ market_call.pc \in {"for", "store"} => market_data = before
       /\ \A k \in 1..Len(events) :
            /\ events[k].symbol \in changed
            /\ events[k].bid = data[events[k].symbol].bid
            /\ events[k].ask = data[events[k].symbol].ask
            /\ \A j \in 1..Len(events) :
                 events[j].symbol = events[k].symbol => j = k
       /\ market_call.pc \in {"store", "return"} =>
            TickSymbols = (IF event_handler THEN changed ELSE {})
       /\ market_call.pc = "return" => market_data = data

\* a call has ticked for one symbol whose ask alone moved, not for the
\* symbol that stayed, nor for one that left the snapshot
C12_Witness ==
  /\ market_call.pc = "return" /\ market_call.differs
  /\ Len(market_call.events) = 1
  /\ DictLen(market_call.data) = 2
  /\ DOMAIN market_call.before = DOMAIN market_call.data

(***************************************************************************)
(* check_bar_data.                                                         *)
(***************************************************************************)
RECURSIVE Split(_, _)
\* str.split(sep) of a string given as the sequence of its characters
Split(str, sep) ==
  IF \A k \in 1..Len(str) : str[k] # sep THEN <<str>>
  ELSE LET k == CHOOSE j \in 1..Len(str) :
                  str[j] = sep /\ \A h \in 1..(j - 1) : str[h] # sep
       IN <<SubSeq(str, 1, k - 1)>> \o Split(SubSeq(str, k + 1, Len(str)), sep)

\* a test that sees new keys only
BarCondNewOnly(st, data, cache) == st \notin DOMAIN cache

\* cond = st not in self.bar_data
\* cond = cond or data[st] != self.bar_data[st]
BarCond(st, data, cache) == st \notin DOMAIN cache \/ data[st] # cache[st]

\* the arguments of on_bar_data for key st: symbol, time_frame = st.split('_')
\* and the arrays of data[st]
BarEvent(st, data) ==
  LET parts == Split(st, "_")
  IN [symbol |-> parts[1], time_frame |-> parts[2], time |-> data[st].time,
      ohlc |-> [open |-> data[st].open, high |-> data[st].high,
                low |-> data[st].low, close |-> data[st].close],
      tick_volume |-> data[st].tick_volume]

\* the terminal writes Bar_Data.json
BarWrite ==
  /\ bar_call.pc = "idle"
  /\ \E f \in BarFiles : f # bar_file /\ bar_file' = f
  /\ UNCHANGED <<bridge, market, reconciler, inbox, event_handler, others>>
  /\ UNCHANGED <<bar_data, bar_call>>

\* data = try_load_json(self.path_bar_data) and the test
\* len(data) > 0 and data != self.bar_data
CheckBarData ==
  /\ bar_call.pc = "idle"
  /\ LET data == TryLoadJson(bar_file)
         differs == DictLen(data) > 0 /\ data # bar_data
     IN bar_call' =
          [pc |-> IF ~differs THEN "return"
                  ELSE IF event_handler THEN "for" ELSE "store",
           data |-> data,
           todo |-> IF differs /\ event_handler THEN DOMAIN data ELSE {},
           events |-> <<>>,
           before |-> bar_data,
           differs |-> differs]
  /\ UNCHANGED <<bridge, market, reconciler, inbox, event_handler, others>>
  /\ UNCHANGED <<bar_file, bar_data>>

\* one iteration of for st in data.keys(): on_bar_data if cond; unpacking
\* st.split('_') into symbol, time_frame raises ValueError unless it has two
\* parts, and the call is left at once
BarLoop ==
  /\ bar_call.pc = "for"
  /\ \E st \in bar_call.todo :
       LET data == bar_call.data
           left == bar_call.todo \ {st}
       IN IF ~BarCond(st, data, bar_data)
            THEN bar_call' = [bar_call EXCEPT
                                !.todo = left,
                                !.pc = IF left = {} THEN "store" ELSE "for"]
            ELSE IF Len(Split(st, "_")) # 2
                   THEN bar_call' = [bar_call EXCEPT !.pc = "raised"]
                   ELSE bar_call' =
                          [bar_call EXCEPT
                             !.todo = left,
                             !.events =
                               Append(@, [key |-> st,
                                          args |-> BarEvent(st, data)]),
                             !.pc = IF left = {} THEN "store" ELSE "for"]
  /\ UNCHANGED <<bridge, market, reconciler, inbox, event_handler, others>>
  /\ UNCHANGED <<bar_file, bar_data>>

\* self.bar_data = data
BarStore ==
  /\ bar_call.pc = "store"
  /\ bar_data' = bar_call.data
  /\ bar_call' = [bar_call EXCEPT !.pc = "return"]
  /\ UNCHANGED <<bridge, market, reconciler, inbox, event_handler, others>>
  /\ UNCHANGED bar_file

\* return self.bar_data
BarReturn ==
  /\ bar_call.pc = "return"
  /\ bar_call' = NoCall
  /\ UNCHANGED <<bridge, market, reconciler, inbox, event_handler, others>>
  /\ UNCHANGED <<bar_file, bar_data>>

BarInit ==
  /\ ChannelAtRest
  /\ event_handler \in BOOLEAN
  /\ MarketAtRest
  /\ BarAtRest
  /\ ReconcilerAtRest
  /\ MirrorAtRest
  /\ InboxAtRest
  /\ OthersAtRest

BarNext == BarWrite \/ CheckBarData \/ BarLoop \/ BarStore \/ BarReturn

BarSpec == BarInit /\ [][BarNext]_vars

Get(d, key) == IF key \in DOMAIN d THEN d[key] ELSE JsonNone

\* isinstance(v, Dict)
IsDict(v) == v.kind = "map"

\* int(t) for a ticket key
TicketOf(t) == IF t = "7" THEN 7 ELSE 9

\* get_order_type_from_str: the order type variant a string names
GetOrderTypeFromStr(str) == [variant |-> str]

\* the Order that _transform_json_orders_to_orders builds from entry o of
\* key t
OrderOf(t, o) ==
  [ticket |-> TicketOf(t), price |-> o.open_price, stop_loss |-> o.SL,
   take_profit |-> o.TP, lots |-> o.lots, symbol |-> o.symbol,
   order_type |-> GetOrderTypeFromStr(o.type), magic |-> o.magic,
   comment |-> o.comment, pnl |-> o.pnl]

\* the keys of a decoded map are visited in the order of the file, here the
\* order of the tickets
TicketKeyOrder == <<"7", "9">>

\* _transform_json_orders_to_orders
TransformJsonOrdersToOrders(json_orders) ==
  LET InMap(t) == t \in DOMAIN json_orders
      keys == SelectSeq(TicketKeyOrder, InMap)
  IN [n \in 1..Len(keys) |-> OrderOf(keys[n], json_orders[keys[n]])]

\* Order.__eq__: an order is identified by its ticket
OrderEq(a, b) == a.ticket = b.ticket

\* order in orders
InOrders(order, orders) ==
  \E n \in 1..Len(orders) : OrderEq(order, orders[n])

\* only the first loop: orders that are gone
NewEventGoneOnly(old, new) ==
  \E n \in 1..Len(old) : ~InOrders(old[n], new)

\* new_event after the two loops of lines 288-297
NewEvent(old, new) ==
  \/ \E n \in 1..Len(old) : ~InOrders(old[n], new)
  \/ \E n \in 1..Len(new) : ~InOrders(new[n], old)

\* a test that forgets account_info
WellFormedOrdersOnly(data) == IsDict(Get(data, "orders"))

\* len(data) > 0 and isinstance(data_orders, Dict)
\* and isinstance(data_account_info, Dict)
WellFormed(data) ==
  /\ DictLen(data) > 0
  /\ IsDict(Get(data, "orders"))
  /\ IsDict(Get(data, "account_info"))

\* data_orders != self.open_orders: a dict is never equal to a list
\* or data_account_info != self.account_info
OrdersDiffer(data, orders, account) ==
  TRUE \/ Get(data, "account_info") # account

\* self.account_info left as it was
KeepAccountInfo(data_account_info, account) == account

\* self.account_info = data_account_info
NewAccountInfo(data_account_info, account) == data_account_info

\* the mirror file left as it was
StoredSnapshotStale(data, stored) == stored

\* with open(self.path_orders_stored, 'w') as f: f.write(json.dumps(data))
StoredSnapshot(data, stored) == [state |-> "json", json |-> data]

\* the terminal writes Orders.json
OrdersWrite ==
  /\ orders_call.pc = "idle"
  /\ \E f \in OrdersFiles : f # orders_file /\ orders_file' = f
  /\ UNCHANGED <<bridge, market, bar, inbox, event_handler, others>>
  /\ UNCHANGED <<open_orders, account_info, orders_stored, orders_call>>

\* lines 274-297: load, the test, orders and new_event
CheckOpenOrders ==
  /\ orders_call.pc = "idle"
  /\ LET data == TryLoadJson(orders_file)
         update == WellFormed(data)
                     /\ OrdersDiffer(data, open_orders, account_info)
         orders == IF update
                     THEN TransformJsonOrdersToOrders(Get(data, "orders").val)
                     ELSE <<>>
     IN orders_call' =
          [pc |-> IF update THEN "assign" ELSE "return",
           data |-> data,
           orders |-> orders,
           new_event |-> update /\ NewEvent(open_orders, orders),
           update |-> update,
           events |-> <<>>,
           before |-> [open_orders |-> open_orders,
                       account_info |-> account_info,
                       orders_stored |-> orders_stored]]
  /\ UNCHANGED <<bridge, market, bar, inbox, event_handler, others>>
  /\ UNCHANGED <<orders_file, open_orders, account_info, orders_stored>>

\* self.account_info = data_account_info; self.open_orders = orders
OrdersAssign ==
  /\ orders_call.pc = "assign"
  /\ account_info' =
       NewAccountInfo(Get(orders_call.data, "account_info"), account_info)
  /\ open_orders' = orders_call.orders
  /\ orders_call' = [orders_call EXCEPT !.pc = "mirror"]
  /\ UNCHANGED <<bridge, market, bar, inbox, event_handler, others>>
  /\ UNCHANGED <<orders_file, orders_stored>>

\* the write of Orders_Stored.json
OrdersMirror ==
  /\ orders_call.pc = "mirror"
  /\ orders_stored' = StoredSnapshot(orders_call.data, orders_stored)
  /\ orders_call' =
       [orders_call EXCEPT
          !.pc = IF orders_call.new_event /\ event_handler
                   THEN "event" ELSE "return"]
  /\ UNCHANGED <<bridge, market, bar, inbox, event_handler, others>>
  /\ UNCHANGED <<orders_file, open_orders, account_info>>

\* self.event_handler.on_order_event(self, self.account_info,
\* self.open_orders); the mirror file is recorded as the callback finds it
OrdersEvent ==
  /\ orders_call.pc = "event"
  /\ orders_call' =
       [orders_call EXCEPT
          !.events = Append(@, [account_info |-> account_info,
                                open_orders |-> open_orders,
                                orders_stored |-> orders_stored]),
          !.pc = "return"]
  /\ UNCHANGED <<bridge, market, bar, inbox, event_handler, others>>
  /\ UNCHANGED <<orders_file, open_orders, account_info, orders_stored>>

\* return self.open_orders
OrdersReturn ==
  /\ orders_call.pc = "return"
  /\ orders_call' = NoCall
  /\ UNCHANGED <<bridge, market, bar, inbox, event_handler, others>>
  /\ UNCHANGED <<orders_file, open_orders, account_info, orders_stored>>

OrdersInit ==
  /\ ChannelAtRest
  /\ event_handler \in BOOLEAN
  /\ MarketAtRest
  /\ BarAtRest
  /\ ReconcilerAtRest
  /\ orders_stored \in {MissingFile, StaleOrdersStored}
  /\ InboxAtRest
  /\ OthersAtRest

OrdersNext ==
  \/ OrdersWrite \/ CheckOpenOrders \/ OrdersAssign \/ OrdersMirror
  \/ OrdersEvent \/ OrdersReturn

OrdersSpec == OrdersInit /\ [][OrdersNext]_vars

\* the tickets of a list of orders
Tickets(orders) == { orders[n].ticket : n \in 1..Len(orders) }

\* the tickets the keys of a decoded orders map name
TicketsOfKeys(json_orders) ==
  { n \in {7, 9} : \E t \in DOMAIN json_orders :
                     (t = "7" /\ n = 7) \/ (t = "9" /\ n = 9) }

\* the list orders holds one order for each entry of json_orders, with the
\* entry's fields
DecodedFrom(orders, json_orders) ==
  /\ Len(orders) = Cardinality(DOMAIN json_orders)
  /\ Tickets(orders) = TicketsOfKeys(json_orders)
  /\ \A n \in 1..Len(orders) : \E t \in DOMAIN json_orders :
       /\ (t = "7" /\ orders[n].ticket = 7) \/ (t = "9" /\ orders[n].ticket = 9)
       /\ orders[n].stop_loss = json_orders[t].SL
       /\ orders[n].price = json_orders[t].open_price
       /\ orders[n].lots = json_orders[t].lots
       /\ orders[n].symbol = json_orders[t].symbol

\* C14: a call of check_open_orders makes at most one on_order_event call,
\* and that call carries the account info of the snapshot and one order for
\* each entry of its orders map; with a handler set, a call that finds
\* ticket 7 gone and ticket 9 new makes exactly one.
C14_OneAggregatedOrderEvent ==
  orders_call.pc # "idle" =>
    LET events == orders_call.events
        data == orders_call.data
    IN /\ Len(events) <= 1
       /\ \A k \in 1..Len(events) :
            /\ events[k].account_info = data["account_info"]
            /\ DecodedFrom(events[k].open_orders, data["orders"].val)
       /\ ( /\ orders_call.pc = "return" /\ orders_call.update
            /\ event_handler
            /\ Tickets(orders_call.before.open_orders) = {7}
            /\ TicketsOfKeys(data["orders"].val) = {9} )
          => Len(events) = 1

\* ticket 7 went and ticket 9 came in one poll, the account changed too, and
\* one event was raised
C14_Witness ==
  /\ orders_call.pc = "return"
  /\ Len(orders_call.events) = 1
  /\ Tickets(orders_call.before.open_orders) = {7}
  /\ Tickets(open_orders) = {9}
  /\ orders_call.before.account_info # account_info

\* C15: with a handler set, a call of check_open_orders on a snapshot whose
\* orders and account_info are maps raises on_order_event if and only if the
\* tickets of the cached list and the tickets of the snapshot are not the
\* same set; a change of other fields of the orders or of the account info
\* alone raises nothing.
C15_EventIffTicketsDiffer ==
  (orders_call.pc = "return" /\ orders_call.update) =>
    LET tickets_differ ==
          Tickets(orders_call.before.open_orders) #
            TicketsOfKeys(orders_call.data["orders"].val)
    IN (orders_call.events # <<>>) <=> (event_handler /\ tickets_differ)

\* the stop loss of the one order and the account info changed, the tickets
\* did not, and no event was raised though a handler is set
C15_Witness ==
  /\ orders_call.pc = "return" /\ orders_call.update
  /\ event_handler
  /\ orders_call.events = <<>>
  /\ Tickets(open_orders) = {7}
  /\ open_orders # orders_call.before.open_orders
  /\ account_info # orders_call.before.account_info

\* the snapshot a call read is missing or empty, or lacks orders or
\* account_info, or holds one of them as something that is no map
Malformed ==
  \/ orders_file.state # "json"
  \/ "orders" \notin DOMAIN orders_call.data
  \/ "account_info" \notin DOMAIN orders_call.data
  \/ orders_call.data["orders"].kind # "map"
  \/ orders_call.data["account_info"].kind # "map"

\* C16: a call of check_open_orders that reads such a snapshot goes straight
\* to its return: open_orders, account_info and the mirror file stay as the
\* call found them and no event is raised, so it returns the list that was
\* cached.
C16_MalformedSnapshotSkipped ==
  (orders_call.pc # "idle" /\ Malformed) =>
    /\ orders_call.pc = "return"
    /\ open_orders = orders_call.before.open_orders
    /\ account_info = orders_call.before.account_info
    /\ orders_stored = orders_call.before.orders_stored
    /\ orders_call.events = <<>>

\* with orders cached, a snapshot whose account_info is an array was skipped
C16_Witness ==
  /\ orders_call.pc = "return"
  /\ open_orders # <<>>
  /\ "account_info" \in DOMAIN orders_call.data
  /\ orders_call.data["account_info"].kind = "list"
  /\ "orders" \in DOMAIN orders_call.data
  /\ orders_call.data["orders"].kind = "map"
  /\ DictLen(orders_call.data["orders"].val) = 2

\* the mirror file, open_orders and account_info describe one snapshot
SameSnapshot(stored, orders, account) ==
  /\ stored.state = "json"
  /\ DOMAIN stored.json = {"orders", "account_info"}
  /\ stored.json["orders"].kind = "map"
  /\ account = stored.json["account_info"]
  /\ DecodedFrom(orders, stored.json["orders"].val)

\* C17: a call of check_open_orders that updates the cache has written the
\* snapshot it read to the mirror file when it raises its event and when it
\* returns: inside the callback and at that return the mirror file,
\* open_orders and account_info describe the snapshot read.  A call that
\* does not update leaves the three as they were, so they agree at every
\* return from the first update on.
C17_MirrorBeforeEventAndReturn ==
  orders_call.pc # "idle" =>
    LET data == orders_call.data
        read == [state |-> "json", json |-> data]
    IN /\ orders_call.pc = "event" => orders_stored = read
       /\ \A k \in 1..Len(orders_call.events) :
            /\ orders_call.events[k].orders_stored = read
            /\ SameSnapshot(read, orders_call.events[k].open_orders,
                            orders_call.events[k].account_info)
       /\ (orders_call.pc = "return" /\ orders_call.update) =>
            /\ orders_stored = read
            /\ SameSnapshot(orders_stored, open_orders, account_info)
       /\ (orders_call.pc = "return" /\ ~orders_call.update) =>
            \/ SameSnapshot(orders_stored, open_orders, account_info)
            \/ /\ open_orders = <<>>
               /\ account_info = JsonMap(EmptyDict)
               /\ orders_stored \in {MissingFile, StaleOrdersStored}

\* a call that found the mirror of an earlier run replaced it and raised an
\* event; a later call skipped a damaged snapshot and left all three alone
C17_Witness ==
  /\ orders_call.pc = "return" /\ ~orders_call.update
  /\ orders_stored \notin {MissingFile, StaleOrdersStored}
  /\ open_orders # <<>>
  /\ event_handler

(***************************************************************************)
(* check_messages.                                                         *)
(***************************************************************************)
RECURSIVE IntOf(_)
\* int(millis) of a string of decimal digits
IntOf(str) ==
  IF Len(str) = 0 THEN 0
  ELSE 10 * IntOf(SubSeq(str, 1, Len(str) - 1)) + str[Len(str)]

RECURSIVE StrLess(_, _)
\* a < b for two strings: the first character that differs decides, and a
\* proper prefix comes first
StrLess(a, b) ==
  IF Len(b) = 0 THEN FALSE
  ELSE IF Len(a) = 0 THEN TRUE
  ELSE IF a[1] # b[1] THEN a[1] < b[1]
  ELSE StrLess(Tail(a), Tail(b))

RECURSIVE SortedKeys(_)
\* the keys of sorted(data.items()): the items are (key, message) pairs and
\* the keys are distinct strings, so the keys alone decide the order
SortedKeys(keys) ==
  IF keys = {} THEN <<>>
  ELSE LET least == CHOOSE k \in keys :
                      \A other \in keys \ {k} : StrLess(k, other)
       IN <<least>> \o SortedKeys(keys \ {least})

\* a test that lets every entry through
IsNewerAlways(millis, mark) == TRUE

\* a test that lets the entry at the mark through again
IsNewerOrSame(millis, mark) == IntOf(millis) >= mark

\* int(millis) > self._last_messages_millis
IsNewer(millis, mark) == IntOf(millis) > mark

\* 'ERROR' in message_content
LogOf(message_content) ==
  IF \E k \in 1..Len(message_content) : message_content[k] = "ERROR"
    THEN "ERROR" ELSE "INFO"

\* data != self.messages: the keys of data are timestamps, those of
\* self.messages are 'INFO' and 'ERROR'
MessagesDiffer(data, logs) == TRUE

\* the terminal writes Messages.json
MessagesWrite ==
  /\ messages_call.pc = "idle"
  /\ \E f \in MessagesFiles : f # messages_file /\ messages_file' = f
  /\ UNCHANGED <<bridge, market, bar, reconciler, event_handler, others>>
  /\ UNCHANGED <<messages, last_messages_millis, messages_call,
                 messages_last>>

\* data = try_load_json(self.path_messages), the test
\* len(data) > 0 and data != self.messages, and sorted(data.items())
CheckMessages ==
  /\ messages_call.pc = "idle"
  /\ LET data == TryLoadJson(messages_file)
         differs == DictLen(data) > 0 /\ MessagesDiffer(data, messages)
     IN messages_call' =
          [pc |-> IF differs THEN "for" ELSE "return",
           data |-> data,
           todo |-> IF differs THEN SortedKeys(DOMAIN data) ELSE <<>>,
           appended |-> <<>>,
           events |-> <<>>,
           before |-> [messages |-> messages, mark |-> last_messages_millis],
           again |-> messages_last.valid /\ messages_last.data = data]
  /\ UNCHANGED <<bridge, market, bar, reconciler, event_handler, others>>
  /\ UNCHANGED <<messages_file, messages, last_messages_millis,
                 messages_last>>

\* one iteration of for millis, message in sorted(data.items())
MessagesLoop ==
  /\ messages_call.pc = "for"
  /\ LET millis == Head(messages_call.todo)
         left == Tail(messages_call.todo)
         message_content == messages_call.data[millis]
         log == LogOf(message_content)
         after == IF left = <<>> THEN "return" ELSE "for"
     IN IF IsNewer(millis, last_messages_millis)
          THEN /\ last_messages_millis' = IntOf(millis)
               /\ messages' = [messages EXCEPT
                                 ![log] = Append(@, Tail(message_content))]
               /\ messages_call' =
                    [messages_call EXCEPT
                       !.todo = left,
                       !.pc = after,
                       !.appended = Append(@, [millis |-> millis,
                                               log |-> log]),
                       !.events = IF event_handler
                                    THEN Append(@, [millis |-> millis,
                                                    args |-> message_content])
                                    ELSE @]
               /\ messages_last' =
                    [messages_last EXCEPT
                       !.handled = Append(@, IntOf(millis))]
          ELSE /\ messages_call' = [messages_call EXCEPT
                                      !.todo = left, !.pc = after]
               /\ UNCHANGED <<messages, last_messages_millis, messages_last>>
  /\ UNCHANGED <<bridge, market, bar, reconciler, event_handler, others>>
  /\ UNCHANGED messages_file

\* return self.messages
MessagesReturn ==
  /\ messages_call.pc = "return"
  /\ messages_last' = [messages_last EXCEPT
                         !.valid = TRUE, !.data = messages_call.data]
  /\ messages_call' = NoCall
  /\ UNCHANGED <<bridge, market, bar, reconciler, event_handler, others>>
  /\ UNCHANGED <<messages_file, messages, last_messages_millis>>

MessagesInit ==
  /\ ChannelAtRest
  /\ event_handler \in BOOLEAN
  /\ MarketAtRest
  /\ BarAtRest
  /\ ReconcilerAtRest
  /\ MirrorAtRest
  /\ InboxAtRest
  /\ OthersAtRest

MessagesNext ==
  MessagesWrite \/ CheckMessages \/ MessagesLoop \/ MessagesReturn

MessagesSpec == MessagesInit /\ [][MessagesNext]_vars

\* the timestamps of a sequence of history records, in order
MillisOf(records) == [n \in 1..Len(records) |-> IntOf(records[n].millis)]

\* what a call appended to one of the two logs, in order
LogEntries(appended, data, log) ==
  LET ToLog(a) == a.log = log
      sel == SelectSeq(appended, ToLog)
  IN [n \in 1..Len(sel) |-> Tail(data[sel[n].millis])]

\* the largest of a non-empty set of numbers
Largest(S) == CHOOSE n \in S : \A other \in S : other <= n

\* C18: within one call of check_messages the entries that are handled are
\* appended to the logs, the ERROR ones to ERROR and the others to INFO, and
\* raised as on_message events in ascending numeric order of timestamp,
\* whatever the number of digits of their keys; when the call returns the
\* high-water mark is the larger of its value at the start and the largest
\* timestamp of the snapshot.
C18_AscendingReplay ==
  messages_call.pc # "idle" =>
    LET data == messages_call.data
        appended == messages_call.appended
        before == messages_call.before
        stamps == { IntOf(millis) : millis \in DOMAIN data }
    IN /\ \A j, k \in 1..Len(appended) :
            j < k => IntOf(appended[j].millis) < IntOf(appended[k].millis)
       /\ \A k \in 1..Len(appended) :
            appended[k].log = "ERROR" <=> data[appended[k].millis][1] = "ERROR"
       /\ messages["INFO"] =
            before.messages["INFO"] \o LogEntries(appended, data, "INFO")
       /\ messages["ERROR"] =
            before.messages["ERROR"] \o LogEntries(appended, data, "ERROR")
       /\ MillisOf(messages_call.events) =
            (IF event_handler THEN MillisOf(appended) ELSE <<>>)
       /\ \A k \in 1..Len(messages_call.events) :
            messages_call.events[k].args = data[messages_call.events[k].millis]
       /\ messages_call.pc = "return" =>
            last_messages_millis =
              (IF stamps = {} \/ Largest(stamps) < before.mark
                 THEN before.mark ELSE Largest(stamps))

\* the entries 5, 3 and 9 were handled in the order 3, 5, 9 and the mark is 9
C18_Witness ==
  /\ messages_call.pc = "return"
  /\ DOMAIN messages_call.data = { <<5>>, <<3>>, <<9>> }
  /\ MillisOf(messages_call.appended) = <<3, 5, 9>>
  /\ last_messages_millis = 9
  /\ event_handler

\* C19: when a call of check_messages returns, every entry of the snapshot
\* whose timestamp was above the high-water mark the call found has been
\* appended once, to one of the two logs, and, with a handler set, raised
\* once as an on_message event.
C19_NoNewEntrySkipped ==
  messages_call.pc = "return" =>
    \A millis \in DOMAIN messages_call.data :
      IntOf(millis) > messages_call.before.mark =>
        /\ Cardinality({ k \in 1..Len(messages_call.appended) :
                           messages_call.appended[k].millis = millis }) = 1
        /\ event_handler =>
             Cardinality({ k \in 1..Len(messages_call.events) :
                             messages_call.events[k].millis = millis }) = 1

\* a sequence of timestamps names none twice
NoRepeat(stamps) ==
  \A j, k \in 1..Len(stamps) : stamps[j] = stamps[k] => j = k

\* log is log_after or its beginning
Extends(log_after, log) ==
  /\ Len(log) <= Len(log_after)
  /\ SubSeq(log_after, 1, Len(log)) = log

\* C20: no step of check_messages lowers the high-water mark or removes an
\* entry from a log, no timestamp is handled twice by the calls of a run,
\* and a call that read what the call before it read appends nothing and
\* raises nothing.
C20_MessagesHandledOnce ==
  [][ /\ last_messages_millis' >= last_messages_millis
      /\ Extends(messages'["INFO"], messages["INFO"])
      /\ Extends(messages'["ERROR"], messages["ERROR"])
      /\ NoRepeat(messages_last'.handled)
      /\ (messages_call'.pc = "return" /\ messages_call'.again) =>
           /\ messages_call'.appended = <<>>
           /\ messages_call'.events = <<>>
           /\ messages' = messages_call'.before.messages ]_vars

\* a second call on an unchanged file of two entries, both logged by the
\* call before, has returned
C20_Witness ==
  /\ messages_call.pc = "return" /\ messages_call.again
  /\ DictLen(messages_call.data) = 2
  /\ Len(messages_last.handled) = 2
  /\ event_handler

(***************************************************************************)
(* The shared directory is missing when the bridge is constructed.         *)
(***************************************************************************)
\* C28: when mt_files_path does not exist, the bridge refuses to start: no
\* command file is written, no worker thread is spawned, start() does not
\* come back normally with the bridge running, and once the failure has
\* reached the caller the facade lock is free.
C28_MissingDirectoryRefusesStart ==
  env = "no_mt_path" =>
    /\ \A s \in Slots : slots[s] = NoFile
    /\ workers = 0
    /\ \A t \in Senders :
         (kind[t] = "start" /\ pc[t] = "raised") => lock = NoThread

(***************************************************************************)
(* check_historical_trades.                                                *)
(***************************************************************************)
\* self.historical_trades = try_load_json(self.path_historical_trades):
\* what is stored is what was loaded, whatever the cache held
NewHistoricalTrades(data, cache) == data

\* the terminal writes Historical_Trades.json
TradesWrite ==
  /\ trades_call.pc = "idle"
  /\ \E f \in TradesFiles : f # trades_file /\ trades_file' = f
  /\ UNCHANGED <<bridge, event_handler, market, bar, reconciler, inbox>>
  /\ UNCHANGED <<historical_trades, trades_call, tracker, lifecycle,
                 orchestration>>

\* a poll that stores what it loaded as the market data too
CheckHistoricalTradesIntoMarket ==
  /\ trades_call.pc = "idle"
  /\ LET data == TryLoadJson(trades_file)
     IN /\ historical_trades' = NewHistoricalTrades(data, historical_trades)
        /\ market_data' = data
        /\ trades_call' = [pc |-> "return",
                           data |-> data,
                           before |-> historical_trades]
  /\ UNCHANGED <<bridge, event_handler, bar, reconciler, inbox>>
  /\ UNCHANGED <<market_file, market_call, market_last>>
  /\ UNCHANGED <<trades_file, tracker, lifecycle,
                 orchestration>>

\* line 402: the file is loaded and the result stored
CheckHistoricalTrades ==
  /\ trades_call.pc = "idle"
  /\ LET data == TryLoadJson(trades_file)
     IN /\ historical_trades' = NewHistoricalTrades(data, historical_trades)
        /\ trades_call' = [pc |-> "return",
                           data |-> data,
                           before |-> historical_trades]
  /\ UNCHANGED <<bridge, event_handler, market, bar, reconciler, inbox>>
  /\ UNCHANGED <<trades_file, tracker, lifecycle,
                 orchestration>>

\* return self.historical_trades
TradesReturn ==
  /\ trades_call.pc = "return"
  /\ trades_call' = NoCall
  /\ UNCHANGED <<bridge, event_handler, market, bar, reconciler, inbox>>
  /\ UNCHANGED <<trades_file, historical_trades, tracker, lifecycle,
                 orchestration>>

TradesInit ==
  /\ ChannelAtRest
  /\ event_handler \in BOOLEAN
  /\ MarketAtRest
  /\ BarAtRest
  /\ ReconcilerAtRest
  /\ MirrorAtRest
  /\ InboxAtRest
  /\ OthersAtRest

TradesNext == TradesWrite \/ CheckHistoricalTrades \/ TradesReturn

TradesSpec == TradesInit /\ [][TradesNext]_vars

\* C21: a call of check_messages, check_market_data, check_bar_data or
\* check_historical_trades that found its snapshot file missing, unreadable
\* or holding an empty document returns with the category's cache as it
\* was when the call began, and has raised no event.
C21_UnreadableSnapshotKeepsCache ==
  /\ (messages_call.pc = "return" /\ DictLen(messages_call.data) = 0) =>
       /\ messages = messages_call.before.messages
       /\ last_messages_millis = messages_call.before.mark
       /\ messages_call.events = <<>>
  /\ (market_call.pc = "return" /\ DictLen(market_call.data) = 0) =>
       /\ market_data = market_call.before
       /\ market_call.events = <<>>
  /\ (bar_call.pc = "return" /\ DictLen(bar_call.data) = 0) =>
       /\ bar_data = bar_call.before
       /\ bar_call.events = <<>>
  /\ (trades_call.pc = "return" /\ DictLen(trades_call.data) = 0) =>
       historical_trades = trades_call.before

(***************************************************************************)
(* Dates.  A datetime is [m, s, us]: the minutes since an instant that     *)
(* begins an hour, the second of the minute and the microsecond of the     *)
(* second, so that datetime.minute is m % 60.  A timedelta has the same    *)
(* three fields.                                                           *)
(***************************************************************************)
\* timedelta(minutes=..., seconds=..., microseconds=...)
TimeDelta(minutes, seconds, microseconds) ==
  [m |-> minutes, s |-> seconds, us |-> microseconds]

\* datetime - timedelta
Minus(d, td) ==
  LET us == d.us - td.us
      bs == IF us < 0 THEN 1 ELSE 0
      s == d.s - td.s - bs
      bm == IF s < 0 THEN 1 ELSE 0
  IN [m |-> d.m - td.m - bm, s |-> s + 60 * bm, us |-> us + 1000000 * bs]

\* datetime + timedelta
Plus(d, td) ==
  LET us == d.us + td.us
      cs == IF us >= 1000000 THEN 1 ELSE 0
      s == d.s + td.s + cs
      cm == IF s >= 60 THEN 1 ELSE 0
  IN [m |-> d.m + td.m + cm, s |-> s - 60 * cm, us |-> us - 1000000 * cs]

\* a < b on datetimes
Before(a, b) ==
  \/ a.m < b.m
  \/ a.m = b.m /\ a.s < b.s
  \/ a.m = b.m /\ a.s = b.s /\ a.us < b.us

\* Config.broker_timezone, as minutes ahead of UTC
BrokerUtcOffset == 120

\* string_to_date_utc(str_date, from_timezone=Config.broker_timezone): the
\* instant str_date names on the broker's clock, on the UTC clock
StringToDateUtc(str_date) == Minus(str_date, TimeDelta(BrokerUtcOffset, 0, 0))

\* the instant d of the UTC clock, as the terminal writes it
BrokerDate(d) == Plus(d, TimeDelta(BrokerUtcOffset, 0, 0))

\* a range that takes its upper end in
InRangeClosed(date, start_range, end_range) ==
  ~Before(date, start_range) /\ ~Before(end_range, date)

\* last_date_from_df >= start_range and last_date_from_df < end_range
InRange(date, start_range, end_range) ==
  ~Before(date, start_range) /\ Before(date, end_range)

\* _is_historical_data_up_to_date(df), with df given by its index and
\* datetime.now(Config.utc_timezone) by now_date; asked only of a frame
\* that has a row
IsHistoricalDataUpToDate(index, now_date) ==
  LET td == TimeDelta((now_date.m % 60) % 5, now_date.s, now_date.us)
      rounded_now_date == Minus(now_date, td)
      start_range == rounded_now_date
      end_range == Plus(rounded_now_date, TimeDelta(5, 0, 0))
      last_date_from_df == StringToDateUtc(index[Len(index)])
  IN InRange(last_date_from_df, start_range, end_range)

(***************************************************************************)
(* check_historical_data, get_remaining_symbols, command_file_exist.       *)
(***************************************************************************)
\* Config.timeframe
ConfigTimeframe == "M5"

\* f'{symbol}_{Config.timeframe}', the key of the series in its file
SeriesKey(symbol) == symbol \o "_" \o ConfigTimeframe

\* a Historical_Data_<symbol>.json that holds one series under key: the
\* series is given by the dates of its rows, in the order of the file
SeriesFile(key, index) ==
  [state |-> "json", json |-> [k \in {key} |-> index]]

\* the sequences that hold each element of set S once
Lists(S) ==
  { list \in [1..Cardinality(S) -> S] :
      \A x \in S : \E k \in 1..Cardinality(S) : list[k] = x }

\* every configured symbol, whatever was successful
GetRemainingSymbolsAll(all_symbols, successful) == Lists(all_symbols)

\* get_remaining_symbols: list(all_symbols - successful_symbols), in the
\* order in which the set happens to be iterated
GetRemainingSymbols(all_symbols, successful) ==
  Lists(all_symbols \ successful)

\* no symbol is given: the symbol argument is None
NoSymbol == ""

\* get_historical_data(symbol, time_frame): the (verb, payload) pair, with
\* the two ends of the lookback window as timestamps
HistoricalDataCommand(symbol, start, end) ==
  [verb |-> "GET_HISTORICAL_DATA",
   content |-> Join(<<symbol, ConfigTimeframe, ToString(start),
                      ToString(end)>>, ",")]

\* try_read_file: the text of the file, '' when it cannot be read
TryReadFile(file) == IF file = NoFile THEN "" ELSE file

\* pattern in text
Contains(pattern, text) ==
  \E k \in 1..(Len(text) - Len(pattern) + 1) :
    SubSeq(text, k, k + Len(pattern) - 1) = pattern

\* the verb and the symbol with a comma between them, which no command
\* file holds
RequestPatternComma(symbol) == "GET_HISTORICAL_DATA," \o symbol

\* command_file_exist: pattern = f'GET_HISTORICAL_DATA|{symbol}'
RequestPattern(symbol) == "GET_HISTORICAL_DATA|" \o symbol

\* the slots in a sequence
RECURSIVE SlotList(_)
SlotList(S) ==
  IF S = {} THEN <<>>
  ELSE LET s == CHOOSE x \in S : \A y \in S : x <= y
       IN <<s>> \o SlotList(S \ {s})

\* the terminal writes Historical_Data_<symbol>.json
HistoricalWrite(symbol, file) ==
  /\ history_call.pc = "idle"
  /\ file # historical_files[symbol]
  /\ historical_files' = [historical_files EXCEPT ![symbol] = file]
  /\ UNCHANGED <<bridge, event_handler, market, bar, reconciler, inbox>>
  /\ UNCHANGED <<trades, lifecycle, orchestration>>
  /\ UNCHANGED <<historical_data, successful_symbols, history_call>>

\* the frame of a step of check_historical_data that touches no slot file
HistoryFrame ==
  /\ UNCHANGED <<bridge, event_handler, market, bar, reconciler, inbox>>
  /\ UNCHANGED <<trades, lifecycle, orchestration, historical_files>>

\* check_historical_data(symbol) is called; line 345:
\* remaining_symbols = self.get_remaining_symbols()
CheckHistoricalData(symbol) ==
  /\ history_call.pc = "idle"
  /\ \E remaining_symbols \in
          GetRemainingSymbols(ConfigSymbols, successful_symbols) :
       history_call' =
         [pc |-> "pick",
          symbol |-> symbol,
          remaining_symbols |-> remaining_symbols,
          data |-> EmptyDict,
          index |-> <<>>,
          now |-> TimeDelta(0, 0, 0),
          fresh |-> FALSE,
          g |-> <<>>,
          command_files |-> <<>>,
          events |-> <<>>,
          removed |-> <<>>,
          globbed |-> [s \in Slots |-> NoFile],
          before |-> [successful_symbols |-> successful_symbols]]
  /\ UNCHANGED <<historical_data, successful_symbols>>
  /\ HistoryFrame

\* lines 346-349: return {} when no symbol remains; else, when no symbol
\* was given, remaining_symbols[randrange(len(remaining_symbols))]
HistoryPick ==
  /\ history_call.pc = "pick"
  /\ LET remaining_symbols == history_call.remaining_symbols
     IN IF Len(remaining_symbols) = 0
          THEN history_call' = [history_call EXCEPT !.pc = "return"]
          ELSE \E k \in 1..Len(remaining_symbols) :
                 history_call' =
                   [history_call EXCEPT
                      !.pc = "load",
                      !.remaining_symbols = <<>>,
                      !.symbol = IF @ = NoSymbol
                                   THEN remaining_symbols[k] ELSE @]
  /\ UNCHANGED <<historical_data, successful_symbols>>
  /\ HistoryFrame

\* lines 352-360: the file of the symbol is loaded; when it holds a
\* document the frame is built from data[f'{symbol}_{Config.timeframe}'],
\* a KeyError when the key is not there, and stored
HistoryLoad ==
  /\ history_call.pc = "load"
  /\ LET symbol == history_call.symbol
         data == TryLoadJson(historical_files[symbol])
     IN IF DictLen(data) = 0
          THEN /\ history_call' = [history_call EXCEPT !.pc = "return"]
               /\ UNCHANGED historical_data
          ELSE IF SeriesKey(symbol) \notin DOMAIN data
                 THEN /\ history_call' = [history_call EXCEPT
                                            !.pc = "raised", !.data = data]
                      /\ UNCHANGED historical_data
                 ELSE LET index == data[SeriesKey(symbol)]
                      IN /\ history_call' =
                              [history_call EXCEPT !.pc = "fresh",
                                                   !.data = data,
                                                   !.index = index]
                         /\ historical_data' =
                              [historical_data EXCEPT
                                 ![symbol] = [set |-> TRUE,
                                              index |-> index]]
  /\ UNCHANGED successful_symbols
  /\ HistoryFrame

\* lines 363-368: the freshness test at time now_date, df.index[-1] an
\* IndexError when the frame has no row; when fresh, the symbol is added
\* to successful_symbols and on_historical_data is called
HistoryFresh(now_date) ==
  /\ history_call.pc = "fresh"
  /\ LET symbol == history_call.symbol
         index == history_call.index
     IN IF Len(index) = 0
          THEN /\ history_call' = [history_call EXCEPT !.pc = "raised"]
               /\ UNCHANGED successful_symbols
          ELSE IF IsHistoricalDataUpToDate(index, now_date)
                 THEN /\ successful_symbols' =
                           successful_symbols \cup {symbol}
                      /\ history_call' =
                           [history_call EXCEPT
                              !.pc = "glob",
                              !.now = now_date,
                              !.fresh = TRUE,
                              !.events = IF event_handler
                                           THEN Append(@, symbol) ELSE @]
                 ELSE /\ history_call' =
                           [history_call EXCEPT !.pc = "return",
                                                !.now = now_date]
                      /\ UNCHANGED successful_symbols
  /\ UNCHANGED historical_data
  /\ HistoryFrame

\* command_file_exist, line 669: g = glob.glob(f'{path_commands_prefix}*')
HistoryGlob ==
  /\ history_call.pc = "glob"
  /\ LET g == SlotList({ s \in Slots : slots[s] # NoFile })
     IN history_call' =
          [history_call EXCEPT
             !.g = g,
             !.globbed = slots,
             !.pc = IF g = <<>> THEN "return" ELSE "read"]
  /\ UNCHANGED <<historical_data, successful_symbols>>
  /\ HistoryFrame

\* command_file_exist, lines 671-673: one file of g is read and kept when
\* the pattern is in its text
HistoryRead ==
  /\ history_call.pc = "read"
  /\ LET f == Head(history_call.g)
         left == Tail(history_call.g)
         hit == Contains(RequestPattern(history_call.symbol),
                         TryReadFile(slots[f]))
         command_files == IF hit THEN Append(history_call.command_files, f)
                          ELSE history_call.command_files
     IN history_call' =
          [history_call EXCEPT
             !.g = left,
             !.command_files = command_files,
             !.pc = IF left # <<>> THEN "read"
                    ELSE IF command_files # <<>> THEN "remove"
                    ELSE "return"]
  /\ UNCHANGED <<historical_data, successful_symbols>>
  /\ HistoryFrame

\* lines 372-373: try_remove_file(com) for one file of command_files;
\* nothing happens when the file is gone
HistoryRemove ==
  /\ history_call.pc = "remove"
  /\ LET com == Head(history_call.command_files)
         left == Tail(history_call.command_files)
     IN /\ slots' = [slots EXCEPT ![com] = NoFile]
        /\ sat' = IF slots[com] # NoFile THEN [t \in Senders |-> FALSE]
                  ELSE sat
        /\ history_call' =
             [history_call EXCEPT
                !.command_files = left,
                !.removed = IF slots[com] # NoFile
                              THEN Append(@, [slot |-> com,
                                              text |-> slots[com]])
                              ELSE @,
                !.pc = IF left # <<>> THEN "remove" ELSE "return"]
  /\ UNCHANGED <<command_id, lock, facade, clock, pc, kind, cmd, locals,
                 calls, assigned, seen, wrote, carried, pred, last_carried>>
  /\ UNCHANGED <<event_handler, market, bar, reconciler, inbox>>
  /\ UNCHANGED <<trades, lifecycle, orchestration, historical_files>>
  /\ UNCHANGED <<historical_data, successful_symbols>>

\* return data
HistoryReturn ==
  /\ history_call.pc = "return"
  /\ history_call' = NoCall
  /\ UNCHANGED <<historical_data, successful_symbols>>
  /\ HistoryFrame

(***************************************************************************)
(* One symbol's series against the clock: the terminal rewrites the file   *)
(* of symbol A, and check_historical_data('A') is called at any time.      *)
(***************************************************************************)
\* the times of the calls, on the UTC clock
FreshNows ==
  { [m |-> m, s |-> s, us |-> us] :
      m \in {7, 58, 60}, s \in {0, 59}, us \in {0, 999999} }

\* the dates of the last row of the series, on the UTC clock
FreshLasts ==
  { [m |-> m, s |-> s, us |-> us] :
      m \in {4, 5, 9, 10, 54, 55, 59, 60, 64, 65}, s \in {0}, us \in {0} }
  \cup
  { [m |-> m, s |-> s, us |-> us] :
      m \in {4, 5, 9, 10, 54, 55, 59, 60, 64, 65}, s \in {59},
      us \in {999999} }

\* the files of symbol A: missing, empty, a series of two rows, a series
\* with no row, a document with another key than 'A_M5'
FreshFiles ==
  UnreadableFiles \cup
  { SeriesFile(SeriesKey("A"),
               <<BrokerDate(TimeDelta(0, 0, 0)), BrokerDate(d)>>) :
      d \in FreshLasts } \cup
  { SeriesFile(SeriesKey("A"), <<>>),
    SeriesFile("A_H1", <<BrokerDate(TimeDelta(5, 0, 0))>>) }

FreshInit ==
  /\ ChannelAtRest
  /\ event_handler \in BOOLEAN
  /\ MarketAtRest
  /\ BarAtRest
  /\ ReconcilerAtRest
  /\ MirrorAtRest
  /\ InboxAtRest
  /\ OthersAtRest

FreshNext ==
  \/ \E file \in FreshFiles : HistoricalWrite("A", file)
  \/ CheckHistoricalData("A")
  \/ HistoryPick
  \/ HistoryLoad
  \/ \E now_date \in FreshNows : HistoryFresh(now_date)
  \/ HistoryGlob
  \/ HistoryReturn

FreshSpec == FreshInit /\ [][FreshNext]_vars

\* the call has passed the freshness test of line 363
FreshTested ==
  /\ history_call.pc \in {"glob", "read", "remove", "return"}
  /\ Len(history_call.index) > 0

\* now with its minute reduced to a multiple of 5, second and microsecond 0
Floor5Min(now_date) == [m |-> now_date.m - (now_date.m % 5), s |-> 0, us |-> 0]

\* the date of the last row of the series the call read, on the UTC clock
LastTimestamp == StringToDateUtc(history_call.index[Len(history_call.index)])

\* C23: the freshness test is true exactly when the last timestamp t of the
\* series satisfies floor5min(now) <= t < floor5min(now) + 5 minutes; t equal
\* to floor5min(now) is accepted, t equal to floor5min(now) + 5 minutes is
\* rejected.
C23_FreshIffInCurrentBucket ==
  FreshTested =>
    LET start == Floor5Min(history_call.now)
        end == [start EXCEPT !.m = @ + 5]
        t == LastTimestamp
    IN /\ history_call.fresh <=> (~Before(t, start) /\ Before(t, end))
       /\ t = start => history_call.fresh
       /\ t = end => ~history_call.fresh

\* a series whose last row is dated floor5min(now) + 5 minutes, across the
\* end of an hour, was found stale
C23_Witness ==
  /\ FreshTested
  /\ history_call.now.m = 58
  /\ LastTimestamp = TimeDelta(60, 0, 0)
  /\ ~history_call.fresh

\* a series whose last row is dated floor5min(now) was found fresh
C23_WitnessStart ==
  /\ FreshTested
  /\ LastTimestamp = Floor5Min(history_call.now)
  /\ history_call.fresh

\* C22: no poller ends with an error on a snapshot that can be decoded: no
\* call of check_historical_data or of check_bar_data is left by an
\* exception.
C22_NoPollerRaises ==
  /\ history_call.pc # "raised"
  /\ bar_call.pc # "raised"

(***************************************************************************)
(* The backfill: a thread asks for historical data and sends orders, the   *)
(* terminal consumes the command files and writes the series, and the      *)
(* worker of start_thread_check_historical_data polls.                     *)
(***************************************************************************)
\* get_historical_data(symbol, Config.timeframe) is called by thread t
GetHistoricalData(t, symbol) ==
  /\ Enter(t)
  /\ cmd' = [cmd EXCEPT ![t] = HistoricalDataCommand(symbol, 1000, 2000)]
  /\ kind' = [kind EXCEPT ![t] = "send"]
  /\ pc' = [pc EXCEPT ![t] = "acquire"]
  /\ sat' = [sat EXCEPT ![t] = Saturated]
  /\ UNCHANGED <<channel, facade, clock, locals, assigned, seen, wrote,
                 carried, pred, last_carried>>
  /\ UNCHANGED pollers

\* the time of the polls, on the UTC clock
BackfillNow == [m |-> 7, s |-> 30, us |-> 0]

\* the series the terminal writes for symbol: one whose last row is of the
\* current five minutes, one whose last row is older
BackfillFiles(symbol) ==
  { SeriesFile(SeriesKey(symbol), <<BrokerDate(TimeDelta(m, 0, 0))>>) :
      m \in {0, 5} }

\* the text of a command file is a GET_HISTORICAL_DATA request for symbol
IsRequestFor(symbol, text) ==
  Contains("|GET_HISTORICAL_DATA|" \o symbol \o ",", text)

\* the terminal executes the request for symbol it finds in slot s: it
\* writes the series; it deletes the command file then or later
TerminalAnswer(s, symbol, file) ==
  /\ IsRequestFor(symbol, slots[s])
  /\ HistoricalWrite(symbol, file)

\* the symbols the thread asks historical data for in these runs
RequestedSymbols == {"A", "B"}

BackfillInit ==
  /\ ChannelAtRest
  /\ event_handler \in BOOLEAN
  /\ MarketAtRest
  /\ BarAtRest
  /\ ReconcilerAtRest
  /\ MirrorAtRest
  /\ InboxAtRest
  /\ OthersAtRest

\* the steps of the thread that sends
BackfillSend(t) ==
  \/ \E symbol \in RequestedSymbols : GetHistoricalData(t, symbol)
  \/ CallSend(t)
  \/ Acquire(t) \/ LoadCommandId(t) \/ StoreCommandId(t)
  \/ SampleNow(t) \/ ExamineSlot(t) \/ WriteSlot(t) \/ Sleep(t)
  \/ Release(t)

\* the steps of the worker that polls
BackfillPoll ==
  \/ CheckHistoricalData(NoSymbol)
  \/ HistoryPick
  \/ HistoryLoad
  \/ HistoryFresh(BackfillNow)
  \/ HistoryGlob
  \/ HistoryRead
  \/ HistoryRemove
  \/ HistoryReturn

BackfillNext ==
  \/ BackfillSend(Orchestrator)
  \/ \E s \in Slots : ReceiverDelete(s)
  \/ Tick
  \/ \E s \in Slots, symbol \in ConfigSymbols :
       \E file \in BackfillFiles(symbol) : TerminalAnswer(s, symbol, file)
  \/ BackfillPoll

BackfillSpec == BackfillInit /\ [][BackfillNext]_vars

(***************************************************************************)
(* The backfill as forex.main runs it: one thread asks for the historical  *)
(* data and then polls, one call after the other, while the terminal       *)
(* answers.                                                                *)
(***************************************************************************)
\* the symbol the thread polls in these runs
PolledSymbol == "A"

HistoricalInit == BackfillInit

HistoricalNext ==
  \/ /\ history_call.pc = "idle"
     /\ \A symbol \in ConfigSymbols : historical_data[symbol] = NoSeries
     /\ \E symbol \in RequestedSymbols :
          GetHistoricalData(Orchestrator, symbol)
  \/ Acquire(Orchestrator) \/ LoadCommandId(Orchestrator)
  \/ StoreCommandId(Orchestrator) \/ SampleNow(Orchestrator)
  \/ ExamineSlot(Orchestrator) \/ WriteSlot(Orchestrator)
  \/ Sleep(Orchestrator) \/ Release(Orchestrator)
  \/ \E s \in Slots : ReceiverDelete(s)
  \/ Tick
  \/ \E s \in Slots, symbol \in ConfigSymbols :
       \E file \in BackfillFiles(symbol) : TerminalAnswer(s, symbol, file)
  \/ /\ pc[Orchestrator] = "idle"
     /\ CheckHistoricalData(PolledSymbol)
  \/ HistoryPick
  \/ HistoryLoad
  \/ HistoryFresh(BackfillNow)
  \/ HistoryGlob
  \/ HistoryRead
  \/ HistoryRemove
  \/ HistoryReturn

HistoricalSpec == HistoricalInit /\ [][HistoricalNext]_vars


(***************************************************************************)
(* The remaining symbols: the terminal rewrites the series of every        *)
(* configured symbol, and check_historical_data is called at any time,     *)
(* with a symbol or with none.                                             *)
(***************************************************************************)
RemainingInit == BackfillInit

RemainingNext ==
  \/ \E symbol \in ConfigSymbols :
       \E file \in BackfillFiles(symbol) : HistoricalWrite(symbol, file)
  \/ \E symbol \in ConfigSymbols \cup {NoSymbol} :
       CheckHistoricalData(symbol)
  \/ HistoryPick
  \/ HistoryLoad
  \/ HistoryFresh(BackfillNow)
  \/ HistoryGlob
  \/ HistoryReturn

RemainingSpec == RemainingInit /\ [][RemainingNext]_vars

\* C24: the list get_remaining_symbols() returns to check_historical_data
\* holds exactly the configured symbols that are not in successful_symbols
\* as it is at the call, each of them once.
C24_RemainingIsComplement ==
  history_call.pc = "pick" =>
    LET list == history_call.remaining_symbols
        remaining == ConfigSymbols \ successful_symbols
    IN /\ { list[k] : k \in 1..Len(list) } = remaining
       /\ Len(list) = Cardinality(remaining)

\* B alone was successful and the call got C and A, in this order
C24_Witness ==
  /\ history_call.pc = "pick"
  /\ successful_symbols = {"B"}
  /\ history_call.remaining_symbols = <<"C", "A">>


\* the call of check_historical_data under way has passed line 363 and
\* found the series fresh
HistoryFoundFresh ==
  /\ history_call.pc \in {"glob", "read", "remove", "return"}
  /\ history_call.fresh

\* C25: a call of check_historical_data changes successful_symbols only by
\* adding its symbol, and only when it read a series with at least one row
\* for the symbol and found it fresh; when it returns, on_historical_data
\* has then been raised once for the symbol and no slot file holds a
\* GET_HISTORICAL_DATA request for it.  A call that finds the file
\* missing, empty or stale returns with successful_symbols as it was, no
\* event raised and no slot file deleted.
C25_SuccessOnlyWhenFresh ==
  history_call.pc # "idle" =>
    LET symbol == history_call.symbol
        before == history_call.before.successful_symbols
    IN /\ successful_symbols =
            IF HistoryFoundFresh THEN before \cup {symbol} ELSE before
       /\ HistoryFoundFresh =>
            /\ DictLen(history_call.data) > 0
            /\ history_call.data = TryLoadJson(historical_files[symbol])
            /\ Len(history_call.index) > 0
            /\ IsHistoricalDataUpToDate(history_call.index,
                                        history_call.now)
            /\ event_handler => history_call.events = <<symbol>>
       /\ (history_call.pc = "return" /\ history_call.fresh) =>
            \A s \in Slots : ~IsRequestFor(symbol, slots[s])
       /\ ~HistoryFoundFresh =>
            /\ history_call.events = <<>>
            /\ history_call.removed = <<>>

\* a call returns that found the series fresh and deleted two slot files
\* that held a request for its symbol
C25_Witness ==
  /\ history_call.pc = "return"
  /\ history_call.fresh
  /\ history_call.events = <<history_call.symbol>>
  /\ Len(history_call.removed) = 2
  /\ \A k \in 1..2 :
       IsRequestFor(history_call.symbol, history_call.removed[k].text)

\* a call returns that found the series stale while a slot file holds a
\* request for its symbol
C25_WitnessStale ==
  /\ history_call.pc = "return"
  /\ ~history_call.fresh
  /\ Len(history_call.index) > 0
  /\ \E s \in Slots : IsRequestFor(history_call.symbol, slots[s])


\* C30: whatever the sender and the receiver do meanwhile, every slot
\* file a call of check_historical_data deletes holds, when it is deleted,
\* a GET_HISTORICAL_DATA request for the symbol of the call.
C30_RemovesOnlyOwnRequests ==
  history_call.pc # "idle" =>
    \A k \in 1..Len(history_call.removed) :
      IsRequestFor(history_call.symbol, history_call.removed[k].text)


(***************************************************************************)
(* The worker threads and the two flags.  One category is enabled, the     *)
(* historical trades: start() spawns one worker per call, worker w is the  *)
(* one of the w-th call.  The terminal has left a Historical_Trades.json.  *)
(***************************************************************************)
\* worker w is a thread that a start() has spawned
Spawned(w) == w <= workers

\* a loop that never tests the flag
WhileActiveForever(flag) == TRUE

\* line 395: while self.ACTIVE
WhileActive(flag) == flag

\* a loop that polls whatever the flag is
IfStartAlways(flag) == TRUE

\* line 397: if self.START
IfStart(flag) == flag

\* what a call of stop(), activate() or deactivate() leaves alone
FlagFrame ==
  /\ UNCHANGED <<channel, env, workers, clock, pc, kind, cmd, locals,
                 history>>
  /\ UNCHANGED <<event_handler, market, bar, reconciler, inbox>>
  /\ UNCHANGED <<trades, tracker, orchestration>>

\* stop(): self.START = False
Stop(t) ==
  /\ t = Orchestrator
  /\ Enter(t)
  /\ START' = FALSE
  /\ loops' = [w \in Workers |-> [loops[w] EXCEPT !.stopped = 0]]
  /\ UNCHANGED ACTIVE
  /\ FlagFrame

\* activate(): self.ACTIVE = True
Activate(t) ==
  /\ t = Orchestrator
  /\ Enter(t)
  /\ ACTIVE' = TRUE
  /\ UNCHANGED <<START, loops>>
  /\ FlagFrame

\* deactivate(): self.ACTIVE = False
Deactivate(t) ==
  /\ t = Orchestrator
  /\ Enter(t)
  /\ ACTIVE' = FALSE
  /\ loops' = [w \in Workers |-> [loops[w] EXCEPT !.late = 0]]
  /\ UNCHANGED START
  /\ FlagFrame

\* what a step of a worker's loop leaves alone
LoopFrame ==
  /\ UNCHANGED <<bridge, event_handler, market, bar, reconciler, inbox>>
  /\ UNCHANGED <<trades_file, trades_call, tracker, ACTIVE,
                 orchestration>>

\* lines 395-396: the test of self.ACTIVE; the thread ends when it is
\* false, else it sleeps
WorkerWhile(w) ==
  /\ Spawned(w)
  /\ loops[w].pos = "while"
  /\ loops' = [loops EXCEPT
                 ![w].pos = IF WhileActive(ACTIVE) THEN "if" ELSE "done"]
  /\ UNCHANGED historical_trades
  /\ LoopFrame

\* line 397: the test of self.START, after the sleep
WorkerIf(w) ==
  /\ Spawned(w)
  /\ loops[w].pos = "if"
  /\ loops' = [loops EXCEPT
                 ![w].pos = IF IfStart(START) THEN "call" ELSE "while"]
  /\ UNCHANGED historical_trades
  /\ LoopFrame

\* lines 398, 400-403: the poll, check_historical_trades()
WorkerPoll(w) ==
  /\ Spawned(w)
  /\ loops[w].pos = "call"
  /\ historical_trades' =
       NewHistoricalTrades(TryLoadJson(trades_file), historical_trades)
  /\ loops' = [loops EXCEPT
                 ![w].pos = "while",
                 ![w].stopped = IF START \/ @ = 2 THEN @ ELSE @ + 1,
                 ![w].late = IF ACTIVE \/ @ = 2 THEN @ ELSE @ + 1]
  /\ LoopFrame

WorkerStep(w) == WorkerWhile(w) \/ WorkerIf(w) \/ WorkerPoll(w)

\* the Historical_Trades.json of these runs
LifecycleFile ==
  [state |-> "json",
   json |-> [k \in {"11"} |-> [symbol |-> "EURUSD", lots |-> 1, pnl |-> 1]]]

LifecycleInit ==
  /\ ChannelAtRest
  /\ event_handler \in BOOLEAN
  /\ MarketAtRest
  /\ BarAtRest
  /\ ReconcilerAtRest
  /\ MirrorAtRest
  /\ InboxAtRest
  /\ trades_file = LifecycleFile
  /\ historical_trades = EmptyDict
  /\ trades_call = NoCall
  /\ TrackerAtRest
  /\ LifecycleAtRest
  /\ OrchestrationAtRest

LifecycleNext ==
  \/ Start(Orchestrator) \/ ResetCommandId(Orchestrator)
  \/ Acquire(Orchestrator) \/ LoadCommandId(Orchestrator)
  \/ StoreCommandId(Orchestrator) \/ SampleNow(Orchestrator)
  \/ ExamineSlot(Orchestrator) \/ WriteSlot(Orchestrator)
  \/ Sleep(Orchestrator) \/ Release(Orchestrator)
  \/ SpawnPollers(Orchestrator)
  \/ Stop(Orchestrator) \/ Activate(Orchestrator)
  \/ Deactivate(Orchestrator)
  \/ \E s \in Slots : ReceiverDelete(s)
  \/ Tick
  \/ \E w \in Workers : WorkerStep(w)

LifecycleSpec == LifecycleInit /\ [][LifecycleNext]_vars


\* C26: while START is false, after stop() and before the next start(), no
\* worker thread begins a poll.
C26_NoPollBeginsWhileStopped ==
  \A w \in Workers : loops[w].stopped = 0

\* the scheduler lets every thread that can take a step take one
LifecycleFairSpec ==
  /\ LifecycleSpec
  /\ \A w \in Workers : WF_vars(WorkerStep(w))

\* every spawned worker has left its loop
WorkersDone ==
  \A w \in Workers : Spawned(w) => loops[w].pos = "done"

\* C27: once ACTIVE is cleared for good, every worker thread leaves its
\* loop and ends; a worker begins at most one poll after deactivate()
\* cleared the flag; and a worker ends only on reading ACTIVE false, so
\* stop() alone ends none.
C27_DeactivateEndsWorkers ==
  /\ [](\A w \in Workers : loops[w].late <= 1)
  /\ [][\A w \in Workers :
          (loops[w].pos # "done" /\ loops'[w].pos = "done") => ~ACTIVE]_vars
  /\ (<>[](~ACTIVE)) => <>[]WorkersDone

\* deactivate() was called after a worker had tested ACTIVE: the worker
\* polled once more and ended
C27_Witness ==
  /\ ~ACTIVE
  /\ workers >= 1
  /\ loops[1].pos = "done"
  /\ loops[1].late = 1


(***************************************************************************)
(* The six pollers, called one after the other in any order, on the files  *)
(* the terminal has left: one snapshot per category.                       *)
(***************************************************************************)
\* no call of a poller is running
NoPollRunning ==
  /\ messages_call.pc = "idle"
  /\ market_call.pc = "idle"
  /\ bar_call.pc = "idle"
  /\ orders_call.pc = "idle"
  /\ history_call.pc = "idle"
  /\ trades_call.pc = "idle"

PollersInit ==
  /\ ChannelAtRest
  /\ event_handler \in BOOLEAN
  /\ market_file =
       [state |-> "json",
        json |-> [symbol \in Symbols |-> [bid |-> 1, ask |-> 2]]]
  /\ market_data = EmptyDict
  /\ market_call = NoCall
  /\ market_last = NoLast
  /\ bar_file =
       [state |-> "json",
        json |-> [st \in BarKeys |-> CHOOSE b \in Bars : b.close = <<2>>]]
  /\ bar_data = EmptyDict
  /\ bar_call = NoCall
  /\ orders_file \in
       { f \in JsonFiles(OrdersData) :
           /\ DOMAIN f.json = {"orders", "account_info"}
           /\ f.json["orders"].kind = "map"
           /\ DOMAIN f.json["orders"].val = TicketKeys
           /\ \A t \in TicketKeys : f.json["orders"].val[t].SL = 0
           /\ f.json["account_info"].kind = "map"
           /\ f.json["account_info"].val \in AccountMaps
           /\ f.json["account_info"].val["balance"] = 100 }
  /\ open_orders = <<>>
  /\ account_info = JsonMap(EmptyDict)
  /\ orders_call = NoCall
  /\ MirrorAtRest
  /\ messages_file =
       [state |-> "json",
        json |-> [millis \in MillisKeys |-> MessageAt(millis)]]
  /\ messages = NoMessages
  /\ last_messages_millis = 0
  /\ messages_call = NoCall
  /\ messages_last = [valid |-> FALSE, data |-> EmptyDict, handled |-> <<>>]
  /\ trades_file = LifecycleFile
  /\ historical_trades = EmptyDict
  /\ trades_call = NoCall
  /\ historical_files =
       [symbol \in ConfigSymbols |->
          SeriesFile(SeriesKey(symbol), <<BrokerDate(TimeDelta(5, 0, 0))>>)]
  /\ historical_data = [symbol \in ConfigSymbols |-> NoSeries]
  /\ successful_symbols = {}
  /\ history_call = NoCall
  /\ LifecycleAtRest
  /\ OrchestrationAtRest

PollersNext ==
  \/ NoPollRunning /\ CheckMessages
  \/ MessagesLoop \/ MessagesReturn
  \/ NoPollRunning /\ CheckMarketData
  \/ MarketTick \/ MarketStore \/ MarketReturn
  \/ NoPollRunning /\ CheckBarData
  \/ BarLoop \/ BarStore \/ BarReturn
  \/ NoPollRunning /\ CheckOpenOrders
  \/ OrdersAssign \/ OrdersMirror \/ OrdersEvent \/ OrdersReturn
  \/ NoPollRunning /\ CheckHistoricalData(NoSymbol)
  \/ HistoryPick \/ HistoryLoad \/ HistoryFresh(BackfillNow)
  \/ HistoryGlob \/ HistoryReturn
  \/ NoPollRunning /\ CheckHistoricalTrades
  \/ TradesReturn

PollersSpec == PollersInit /\ [][PollersNext]_vars

\* C29: a step of a poller changes no cached state but that of its own
\* category: check_messages the message logs and the high-water mark,
\* check_market_data market_data, check_bar_data bar_data,
\* check_open_orders open_orders and account_info, check_historical_data
\* historical_data and successful_symbols, check_historical_trades
\* historical_trades; and none changes the command id, START or ACTIVE.
C29_PollersKeepToTheirCategory ==
  [][/\ messages_call' # messages_call =>
          UNCHANGED <<market_data, bar_data, open_orders, account_info,
                      historical_data, successful_symbols,
                      historical_trades, command_id, START, ACTIVE>>
     /\ market_call' # market_call =>
          UNCHANGED <<messages, last_messages_millis, bar_data,
                      open_orders, account_info, historical_data,
                      successful_symbols, historical_trades, command_id,
                      START, ACTIVE>>
     /\ bar_call' # bar_call =>
          UNCHANGED <<messages, last_messages_millis, market_data,
                      open_orders, account_info, historical_data,
                      successful_symbols, historical_trades, command_id,
                      START, ACTIVE>>
     /\ orders_call' # orders_call =>
          UNCHANGED <<messages, last_messages_millis, market_data,
                      bar_data, historical_data, successful_symbols,
                      historical_trades, command_id, START, ACTIVE>>
     /\ history_call' # history_call =>
          UNCHANGED <<messages, last_messages_millis, market_data,
                      bar_data, open_orders, account_info,
                      historical_trades, command_id, START, ACTIVE>>
     /\ trades_call' # trades_call =>
          UNCHANGED <<messages, last_messages_millis, market_data,
                      bar_data, open_orders, account_info,
                      historical_data, successful_symbols, command_id,
                      START, ACTIVE>>
    ]_vars

\* every poller has changed its own cache
C29_Witness ==
  /\ messages # NoMessages
  /\ last_messages_millis # 0
  /\ market_data # EmptyDict
  /\ bar_data # EmptyDict
  /\ open_orders # <<>>
  /\ account_info # JsonMap(EmptyDict)
  /\ successful_symbols = ConfigSymbols
  /\ \A symbol \in ConfigSymbols : historical_data[symbol].set
  /\ historical_trades # EmptyDict


\* the worker threads that have been spawned and have not left their loop
LiveWorkers == { w \in Workers : Spawned(w) /\ loops[w].pos # "done" }

\* C31: after any sequence of start(), stop(), activate() and deactivate()
\* on one bridge, at most one worker thread of the enabled category is
\* alive.
C31_OneLiveWorkerPerCategory == Cardinality(LiveWorkers) <= 1


\* C32: a call of check_open_orders that reads the orders map and the
\* account info the cache and the mirror file already describe does not
\* pass the test of lines 278-282: it assigns nothing, does not write the
\* mirror file again and raises no event.
C32_SameSnapshotNoUpdate ==
  orders_call.pc # "idle" =>
    LET read == [state |-> "json", json |-> orders_call.data]
        before == orders_call.before
    IN (/\ WellFormed(orders_call.data)
        /\ before.orders_stored = read
        /\ SameSnapshot(read, before.open_orders, before.account_info)) =>
         /\ ~orders_call.update
         /\ orders_call.events = <<>>


\* C33: a call of check_historical_data without a symbol goes on with a
\* symbol that is not in successful_symbols when it is chosen; a call that
\* finds no symbol remaining returns at once with an empty result, having
\* loaded no file, changed nothing and raised no event; and no step takes
\* a symbol out of successful_symbols.
C33_PollsOnlyRemaining ==
  [][/\ (history_call.pc = "pick" /\ history_call.symbol = NoSymbol
         /\ history_call'.pc = "load") =>
          history_call'.symbol \in ConfigSymbols \ successful_symbols
     /\ (history_call.pc = "pick"
         /\ ConfigSymbols \subseteq successful_symbols) =>
          /\ history_call'.pc = "return"
          /\ history_call'.data = EmptyDict
          /\ history_call'.events = <<>>
          /\ history_call'.removed = <<>>
          /\ UNCHANGED <<historical_data, successful_symbols, slots>>
     /\ successful_symbols \subseteq successful_symbols'
    ]_vars

\* a call without a symbol has returned at once: no symbol remained
C33_Witness ==
  /\ history_call.pc = "return"
  /\ history_call.symbol = NoSymbol
  /\ successful_symbols = ConfigSymbols


(***************************************************************************)
(* create_new_order.  The bridge has polled the market data or not; a      *)
(* thread opens orders, one call after the other, while the terminal       *)
(* consumes the commands.                                                  *)
(***************************************************************************)
\* OrderOperations: the values of an order type
BuyTypes == {"buy", "buylimit", "buystop"}

SellTypes == {"sell", "selllimit", "sellstop"}

PendingTypes == {"buylimit", "buystop", "selllimit", "sellstop"}

\* the orders a strategy hands to create_new_order
NewOrders ==
  { [symbol |-> symbol, order_type |-> ot, lots |-> "0.01", price |-> price,
     stop_loss |-> 0, take_profit |-> 0, magic |-> 0, comment |-> "test",
     expiration |-> 0] :
    symbol \in Symbols, ot \in BuyTypes \cup SellTypes, price \in 0..3 }

\* calls of create_new_order in one behaviour
MaxOrders == 1

\* get_bid_ask: self.market_data[symbol]['bid'] and ['ask'], and 0, 0 on
\* KeyError
GetBidAsk(symbol) ==
  IF symbol \in DOMAIN market_data
    THEN [bid |-> market_data[symbol].bid, ask |-> market_data[symbol].ask]
    ELSE [bid |-> 0, ask |-> 0]

\* the tests of lines 500-507 without ot.buy and ot.sell
ModifyPendingOrderAnySide(order, bid, ask) ==
  IF bid # 0 /\ ask # 0
    THEN IF order.price > ask THEN "buystop"
         ELSE IF order.price < ask THEN "buylimit"
         ELSE IF order.price < bid THEN "sellstop"
         ELSE IF order.price > bid THEN "selllimit"
         ELSE order.order_type
    ELSE order.order_type

\* _modify_pending_order: the value of order.order_type after the call
ModifyPendingOrder(order, bid, ask) ==
  LET ot == order.order_type
  IN IF bid # 0 /\ ask # 0
       THEN IF ot \in BuyTypes /\ order.price > ask THEN "buystop"
            ELSE IF ot \in BuyTypes /\ order.price < ask THEN "buylimit"
            ELSE IF ot \in SellTypes /\ order.price < bid THEN "sellstop"
            ELSE IF ot \in SellTypes /\ order.price > bid THEN "selllimit"
            ELSE ot
       ELSE ot

\* create_new_order(order), up to the call of send_command
CreateNewOrder(t, order) ==
  /\ Enter(t)
  /\ LET quote == GetBidAsk(order.symbol)
         ot == IF order.order_type \in PendingTypes
                 THEN ModifyPendingOrder(order, quote.bid, quote.ask)
                 ELSE order.order_type
         sent == [order EXCEPT !.order_type = ot]
     IN cmd' = [cmd EXCEPT ![t] = [verb |-> "OPEN_ORDER",
                                   content |-> OpenOrderPayload(sent)]]
  /\ kind' = [kind EXCEPT ![t] = "create"]
  /\ pc' = [pc EXCEPT ![t] = "acquire"]
  /\ sat' = [sat EXCEPT ![t] = Saturated]
  /\ UNCHANGED <<channel, facade, clock, locals, assigned, seen, wrote,
                 carried, pred, last_carried>>
  /\ UNCHANGED pollers

\* the Market_Data.json of these runs: a quote for EURUSD, none for GBPUSD
CreateInit ==
  /\ ChannelAtRest
  /\ event_handler \in BOOLEAN
  /\ market_file =
       [state |-> "json",
        json |-> [symbol \in {"EURUSD"} |-> [bid |-> 1, ask |-> 2]]]
  /\ market_data = EmptyDict
  /\ market_call = NoCall
  /\ market_last = NoLast
  /\ BarAtRest
  /\ ReconcilerAtRest
  /\ MirrorAtRest
  /\ InboxAtRest
  /\ OthersAtRest

CreateNext ==
  \/ /\ market_call.pc = "idle"
     /\ calls < MaxOrders
     /\ \E order \in NewOrders : CreateNewOrder(Orchestrator, order)
  \/ Acquire(Orchestrator) \/ LoadCommandId(Orchestrator)
  \/ StoreCommandId(Orchestrator) \/ SampleNow(Orchestrator)
  \/ ExamineSlot(Orchestrator) \/ WriteSlot(Orchestrator)
  \/ Release(Orchestrator)
  \/ \E s \in Slots : ReceiverDelete(s)
  \/ Tick
  \/ /\ pc[Orchestrator] = "idle"
     /\ CheckMarketData
  \/ MarketTick \/ MarketStore \/ MarketReturn

CreateSpec == CreateInit /\ [][CreateNext]_vars


\* the type the order is sent with, bid and ask being the cached quote of
\* its symbol, or 0 and 0 when there is none
SentType(order, bid, ask) ==
  LET ot == order.order_type
  IN IF ot \notin PendingTypes \/ bid = 0 \/ ask = 0 THEN ot
     ELSE IF ot \in BuyTypes
       THEN IF order.price > ask THEN "buystop"
            ELSE IF order.price < ask THEN "buylimit" ELSE ot
       ELSE IF order.price < bid THEN "sellstop"
            ELSE IF order.price > bid THEN "selllimit" ELSE ot

\* C34: create_new_order never changes the side of the order.  A pending
\* order whose symbol has a cached quote with bid and ask not 0 becomes
\* buy-stop when price > ask and buy-limit when price < ask if it buys,
\* sell-stop when price < bid and sell-limit when price > bid if it
\* sells; the type stays when the price equals the quote, when there is no
\* cached quote, and for a market order.  The call then makes one call of
\* send_command, with OPEN_ORDER and the order with that type, and that
\* call writes at most one slot file.
C34_PendingTypeKeepsSide ==
  /\ [][\A order \in NewOrders :
          CreateNewOrder(Orchestrator, order) =>
            LET quote == GetBidAsk(order.symbol)
                ot == SentType(order, quote.bid, quote.ask)
            IN /\ (ot \in BuyTypes) = (order.order_type \in BuyTypes)
               /\ cmd'[Orchestrator] =
                    [verb |-> "OPEN_ORDER",
                     content |->
                       OpenOrderPayload([order EXCEPT !.order_type = ot])]
               /\ pc'[Orchestrator] = "acquire"]_vars
  /\ [](kind[Orchestrator] = "create" =>
          /\ cmd[Orchestrator].verb = "OPEN_ORDER"
          /\ Len(wrote[Orchestrator]) <= 1)

\* a buy order left pending at price 3 was sent as a buy-stop, the ask
\* being 2, and its command file is written
C34_Witness ==
  /\ kind[Orchestrator] = "create"
  /\ "EURUSD" \in DOMAIN market_data
  /\ cmd[Orchestrator].content = "EURUSD,buystop,0.01,3,0,0,0,test,0"
  /\ Len(wrote[Orchestrator]) = 1


(***************************************************************************)
(* handle(), forex.py.  Each execution is a process of its own, with its   *)
(* own bridge (MT_Client is a singleton of the process); the executions    *)
(* share the file Files.FOREX_LOCK and nothing else.  The calls that main() *)
(* makes on the bridge are steps that return or raise; tradingbot.files    *)
(* and tradingbot.utils are not part of the sources at hand, so lock()     *)
(* creates the file, unlock() removes it, file_exists() tells whether it   *)
(* is there, and get_remaining_symbols() gives the configured symbols      *)
(* that have no fresh series yet.                                          *)
(***************************************************************************)

\* line 48: utc_date.minute % 5, the minutes of a bucket
BucketMinutes == 5

\* line 98: timedelta(minutes=4), the time budget counted from the start
\* of the bucket
BudgetMinutes == 4

\* f.file_exists(Files.FOREX_LOCK.value)
FileExists(file) == file

\* lines 146-148: is_locked()
IsLocked == FileExists(forex_lock)

\* the positions of main() after line 30 and of finish() before unlock()
\* has returned
InMain == {"start", "clean", "send", "trades", "while", "poll", "after",
           "stop", "unlock"}

\* the positions of main() at which the execution has read utc_date
Timed == {"send", "trades", "while", "poll", "after"}

\* what a step of handle() leaves alone
RunFrame ==
  /\ UNCHANGED <<bridge, event_handler, market, bar, reconciler, inbox>>
  /\ UNCHANGED <<trades, tracker, lifecycle>>

\* a handler that only logs the error
OnExceptionLogOnly(run) ==
  [run EXCEPT !.pc = "returned", !.rs = {}, !.minute = 0, !.how = "error"]

\* lines 19-21: except Exception: finish(); the locals of main() are gone
OnException(run) ==
  [run EXCEPT !.pc = "stop", !.rs = {}, !.minute = 0, !.how = "error"]

\* the step of main() at position from returns and main() goes on at
\* position to, or it raises and handle() catches the error
Proceeds(e, from, to, run) ==
  /\ runs[e].pc = from
  /\ \/ runs' = [runs EXCEPT ![e] = [run EXCEPT !.pc = to]]
     \/ runs' = [runs EXCEPT ![e] = OnException(run)]
  /\ UNCHANGED forex_lock
  /\ RunFrame

\* handle() is called
Handle(e) ==
  /\ runs[e].pc \in {"idle", "skipped", "returned"}
  /\ runs' = [runs EXCEPT ![e] = [NoRun EXCEPT !.pc = "check"]]
  /\ UNCHANGED forex_lock
  /\ RunFrame

\* line 16: if not is_locked() and check_time_viability()
CheckLock(e) ==
  /\ runs[e].pc = "check"
  /\ \E viable \in BOOLEAN :
       runs' = [runs EXCEPT ![e].pc =
                  IF ~IsLocked /\ viable THEN "lock" ELSE "skipped"]
  /\ UNCHANGED forex_lock
  /\ RunFrame

\* line 30: f.lock(Files.FOREX_LOCK) creates the file, or raises
LockRun(e) ==
  /\ runs[e].pc = "lock"
  /\ \/ /\ forex_lock' = TRUE
        /\ runs' = [runs EXCEPT ![e].pc = "start", ![e].locked = TRUE]
     \/ /\ runs' = [runs EXCEPT ![e] = OnException(runs[e])]
        /\ UNCHANGED forex_lock
  /\ RunFrame

\* lines 33-34: MT_Client().start() sets START and sends the reset command
StartBridge(e) ==
  Proceeds(e, "start", "clean", [runs[e] EXCEPT !.START = TRUE])

\* lines 37-51: the clean-up calls, f.reset_successful_symbols_file(), and
\* utc_date, read somewhere in its bucket
CleanFiles(e) ==
  \E minute \in 0..(BucketMinutes - 1) :
    Proceeds(e, "clean", "send",
             [runs[e] EXCEPT !.rs = ConfigSymbols,
                             !.minute =
                               IF minute < BudgetMinutes THEN minute
                               ELSE BudgetMinutes])

\* lines 54-60: the profit message and the commands for historical data
\* and quotes
SendRequests(e) == Proceeds(e, "send", "trades", runs[e])

\* line 63: handle_trades(mt_client)
HandleTrades(e) == Proceeds(e, "trades", "while", runs[e])

\* line 100: while len(rs) > 0 and now < stop_condition
WhileRemaining(e) ==
  /\ runs[e].pc = "while"
  /\ runs' = [runs EXCEPT ![e].pc =
                IF runs[e].rs # {} /\ runs[e].minute < BudgetMinutes
                THEN "poll" ELSE "after"]
  /\ UNCHANGED forex_lock
  /\ RunFrame

\* lines 102-109: one symbol of rs is polled; it leaves rs when its series
\* is fresh
PollNext(e) ==
  \E next_symbol \in runs[e].rs, fresh \in BOOLEAN :
    Proceeds(e, "poll", "while",
             [runs[e] EXCEPT !.rs = IF fresh THEN @ \ {next_symbol} ELSE @])

\* lines 112-118: the log line and check_mt_needs_to_restart; line 69:
\* main() calls finish()
AfterLoop(e) ==
  Proceeds(e, "after", "stop",
           [runs[e] EXCEPT !.rs = {}, !.minute = 0, !.how = "end"])

\* line 165: MT_Client().stop(), of finish()
StopBridge(e) ==
  /\ runs[e].pc = "stop"
  /\ runs' = [runs EXCEPT ![e].pc = "unlock", ![e].START = FALSE]
  /\ UNCHANGED forex_lock
  /\ RunFrame

\* line 166: f.unlock(Files.FOREX_LOCK), and handle() returns
UnlockRun(e) ==
  /\ runs[e].pc = "unlock"
  /\ forex_lock' = FALSE
  /\ runs' = [runs EXCEPT ![e].pc = "returned", ![e].locked = FALSE]
  /\ RunFrame

\* a minute passes on the wall clock of an execution that has read utc_date
MinutePasses(e) ==
  /\ runs[e].pc \in Timed
  /\ runs[e].minute < BudgetMinutes
  /\ runs' = [runs EXCEPT ![e].minute = @ + 1]
  /\ UNCHANGED forex_lock
  /\ RunFrame

\* a step of the execution e of handle()
RunStep(e) ==
  \/ CheckLock(e) \/ LockRun(e) \/ StartBridge(e) \/ CleanFiles(e)
  \/ SendRequests(e) \/ HandleTrades(e) \/ WhileRemaining(e)
  \/ PollNext(e) \/ AfterLoop(e) \/ StopBridge(e) \/ UnlockRun(e)

HandleInit ==
  /\ ChannelAtRest
  /\ event_handler \in BOOLEAN
  /\ MarketAtRest
  /\ BarAtRest
  /\ ReconcilerAtRest
  /\ MirrorAtRest
  /\ InboxAtRest
  /\ OthersAtRest

HandleNext ==
  \/ \E e \in Executions : Handle(e)
  \/ \E e \in Executions : CheckLock(e)
  \/ \E e \in Executions : LockRun(e)
  \/ \E e \in Executions : StartBridge(e)
  \/ \E e \in Executions : CleanFiles(e)
  \/ \E e \in Executions : SendRequests(e)
  \/ \E e \in Executions : HandleTrades(e)
  \/ \E e \in Executions : WhileRemaining(e)
  \/ \E e \in Executions : PollNext(e)
  \/ \E e \in Executions : AfterLoop(e)
  \/ \E e \in Executions : StopBridge(e)
  \/ \E e \in Executions : UnlockRun(e)
  \/ \E e \in Executions : MinutePasses(e)

HandleSpec == HandleInit /\ [][HandleNext]_vars

\* C35: two executions of handle() never run main() at the same time: at
\* most one execution at a time has passed the check of line 16 and holds
\* the run lock while its bridge is started and its commands are sent.
C35_OneExecutionInMain ==
  Cardinality({e \in Executions : runs[e].locked}) <= 1


\* the process of an execution keeps running, and its wall clock advances
HandleFairSpec ==
  /\ HandleSpec
  /\ \A e \in Executions : WF_vars(RunStep(e)) /\ WF_vars(MinutePasses(e))

\* the positions of an execution that has entered main()
Entered == InMain \cup {"lock"}

\* C36: an execution of handle() that has entered main() returns, and it
\* returns with the run lock it took released and START of its bridge
\* false, whether main() ran to its end or a step of it raised; the
\* backfill loop begins a poll only while a symbol remains and the time
\* budget has not passed, and goes on to the end of main() otherwise.
C36_MainAlwaysFinishes ==
  /\ [](\A e \in Executions :
          runs[e].pc = "returned" =>
            ~runs[e].locked /\ ~runs[e].START)
  /\ \A e \in Executions :
       (runs[e].pc \in Entered) ~> (runs[e].pc = "returned")
  /\ [][\A e \in Executions :
          LET open == /\ runs[e].rs # {}
                      /\ runs[e].minute < BudgetMinutes
          IN /\ (runs[e].pc # "poll" /\ runs'[e].pc = "poll") => open
             /\ (runs[e].pc = "while" /\ runs'[e].pc # "while") =>
                  runs'[e].pc = IF open THEN "poll" ELSE "after"]_vars

\* both executions have returned from main(), the run lock is free: the
\* first ran main() to its end, a step of the second raised and the
\* handler finished the run
C36_Witness ==
  /\ runs["first"].pc = "returned" /\ runs["first"].how = "end"
  /\ runs["second"].pc = "returned" /\ runs["second"].how = "error"
  /\ ~forex_lock

=============================================================================
